---------------------------- MODULE Spec2Model ----------------------------
(***************************************************************************)
(* Model of StructuredTextSplitter (src/src/utils/chunking_strategy.py).   *)
(*                                                                         *)
(* Text is a sequence of one-character strings, so that the regular        *)
(* expressions, str.split, str.strip, str.join and str.replace of the      *)
(* source are computed character by character.  One run of the state       *)
(* machine is one call of split_text on one splitter instance:             *)
(*   start -> extracted -> parsed -> (one step per section) -> chunked     *)
(*         -> done                                                         *)
(* A second specification, SpecShared, runs several calls of split_text on *)
(* one instance, their steps interleaved; each call has a frame in calls.  *)
(* A third, SpecDocuments, is one call of split_documents on a list of     *)
(* Documents, and a fourth, SpecServer, is the API server of main.py with  *)
(* its session history.                                                    *)
(***************************************************************************)
EXTENDS Integers, Sequences, FiniteSets, TLC

VARIABLES
    cfg,                    \* the splitter instance: constructor arguments
    text,                   \* split_text argument: the document text
    metadata,               \* split_text argument: the caller's metadata
    pc,                     \* position inside split_text
    text_with_placeholders, \* result of _extract_code_blocks
    code_blocks,            \* result of _extract_code_blocks; entry i has id __CODE_BLOCK_(i-1)__
    sections,               \* result of _parse_markdown_structure
    sec_done,               \* number of sections already chunked
    chunks,                 \* chunks accumulated by the loop of split_text
    final_chunks,           \* result of _restore_code_blocks
    calls,                  \* the frames of the split_text calls that share the instance
    documents,              \* split_documents argument: the caller's list of Documents
    docs_done,              \* number of documents the loop of split_documents has split
    all_chunks,             \* chunks accumulated by the loop of split_documents
    dpc,                    \* position inside split_documents
    SESSION_HISTORY,        \* the server's dictionary: session id -> list of {human, ai}
    rag_chain,              \* the server's global rag_chain
    vectorstore,            \* the server's global vectorstore
    log                     \* what the server has handled so far, with the outcomes

vars == <<cfg, text, metadata, pc, text_with_placeholders, code_blocks,
          sections, sec_done, chunks, final_chunks, calls,
          documents, docs_done, all_chunks, dpc,
          SESSION_HISTORY, rag_chain, vectorstore, log>>

\* the variables of split_documents and of the API server
batch == <<documents, docs_done, all_chunks, dpc>>
server == <<SESSION_HISTORY, rag_chain, vectorstore, log>>

\* no call of split_documents under way
NoBatch ==
    /\ documents = <<>>
    /\ docs_done = 0
    /\ all_chunks = <<>>
    /\ dpc = "idle"

\* no server loaded
NoServer ==
    /\ SESSION_HISTORY = <<>>
    /\ rag_chain = "None"
    /\ vectorstore = "None"
    /\ log = <<>>

-----------------------------------------------------------------------------
(* Characters and elementary string functions of Python                    *)

NL == "\n"
SP == " "
\* the backquote character; the module language has no string for it, so the
\* apostrophe (which occurs nowhere else in the modelled texts) stands for it
BT == "'"

\* str.isspace / regex \s over the characters the model uses
Whitespace == {SP, NL}

\* the characters that are not matched by regex \w among those the model uses
NonWord == {SP, NL, BT, "#", "(", ")", ":", "."}

IsWordChar(c) == c \notin NonWord

Digits == <<"0", "1", "2", "3", "4", "5", "6", "7", "8", "9">>

IsDigit(c) == \E d \in 1..10 : Digits[d] = c

Max(a, b) == IF a >= b THEN a ELSE b
Min(a, b) == IF a <= b THEN a ELSE b

\* s[i:] of Python, with i a 1-based position
Drop(s, i) == SubSeq(s, i, Len(s))

\* s.startswith(p, i-1)
StartsWithAt(s, i, p) ==
    /\ i >= 1
    /\ i + Len(p) - 1 <= Len(s)
    /\ SubSeq(s, i, i + Len(p) - 1) = p

\* s.find(p, i-1) + 1 for a non-empty p: first position >= i where p occurs, 0 if none
RECURSIVE FindFrom(_, _, _)
FindFrom(s, i, p) ==
    IF i + Len(p) - 1 > Len(s) THEN 0
    ELSE IF StartsWithAt(s, i, p) THEN i
    ELSE FindFrom(s, i + 1, p)

\* p in s
Contains(s, p) == FindFrom(s, 1, p) # 0

\* s.split(sep) for a non-empty sep
RECURSIVE Split(_, _)
Split(s, sep) ==
    LET k == FindFrom(s, 1, sep)
    IN IF k = 0 THEN <<s>>
       ELSE <<SubSeq(s, 1, k - 1)>> \o Split(Drop(s, k + Len(sep)), sep)

\* sep.join(parts)
RECURSIVE Join(_, _)
Join(parts, sep) ==
    IF Len(parts) = 0 THEN <<>>
    ELSE IF Len(parts) = 1 THEN parts[1]
    ELSE parts[1] \o sep \o Join(Tail(parts), sep)

RECURSIVE LStrip(_)
LStrip(s) ==
    IF Len(s) > 0 /\ s[1] \in Whitespace THEN LStrip(Tail(s)) ELSE s

RECURSIVE RStrip(_)
RStrip(s) ==
    IF Len(s) > 0 /\ s[Len(s)] \in Whitespace THEN RStrip(SubSeq(s, 1, Len(s) - 1)) ELSE s

\* a strip that removes blanks but not newlines, as s.strip(' ') does
Strip_SpacesOnly(s) ==
    LET RECURSIVE L(_), R(_)
        L(x) == IF Len(x) > 0 /\ x[1] = SP THEN L(Tail(x)) ELSE x
        R(x) == IF Len(x) > 0 /\ x[Len(x)] = SP THEN R(SubSeq(x, 1, Len(x) - 1)) ELSE x
    IN L(R(s))

\* s.strip()
Strip(s) == LStrip(RStrip(s))

\* s.replace(old, new) for a non-empty old
RECURSIVE ReplaceAll(_, _, _)
ReplaceAll(s, old, new) ==
    LET k == FindFrom(s, 1, old)
    IN IF k = 0 THEN s
       ELSE SubSeq(s, 1, k - 1) \o new \o ReplaceAll(Drop(s, k + Len(old)), old, new)

\* length of the longest run of characters satisfying \w that starts at position i
RECURSIVE WordRun(_, _)
WordRun(s, i) ==
    IF i <= Len(s) /\ IsWordChar(s[i]) THEN 1 + WordRun(s, i + 1) ELSE 0

\* length of the longest run of whitespace that starts at position i
RECURSIVE SpaceRun(_, _)
SpaceRun(s, i) ==
    IF i <= Len(s) /\ s[i] \in Whitespace THEN 1 + SpaceRun(s, i + 1) ELSE 0

\* length of the longest run of decimal digits that starts at position i
RECURSIVE DigitRun(_, _)
DigitRun(s, i) ==
    IF i <= Len(s) /\ IsDigit(s[i]) THEN 1 + DigitRun(s, i + 1) ELSE 0

\* length of the longest run of character c that starts at position i
RECURSIVE CharRun(_, _, _)
CharRun(s, i, c) ==
    IF i <= Len(s) /\ s[i] = c THEN 1 + CharRun(s, i + 1, c) ELSE 0

\* str(n) for a natural number n
RECURSIVE Dec(_)
Dec(n) == IF n < 10 THEN <<Digits[n + 1]>> ELSE Dec(n \div 10) \o <<Digits[(n % 10) + 1]>>

Fence == <<BT, BT, BT>>
LangPython == <<"p", "y", "t", "h", "o", "n">>
LangPlain == <<"p", "l", "a", "i", "n">>
PlaceholderPrefix == <<"_", "_", "C", "O", "D", "E", "_", "B", "L", "O", "C", "K", "_">>
PlaceholderSuffix == <<"_", "_">>

\* f"__CODE_BLOCK_{code_block_counter}__"
BlockId(counter) == PlaceholderPrefix \o Dec(counter) \o PlaceholderSuffix

-----------------------------------------------------------------------------
(* _extract_function_names, _extract_class_names                           *)

KwDef == <<"d", "e", "f">>
KwClass == <<"c", "l", "a", "s", "s">>

\* re.findall(kw \s+ (\w+) \s* closer, code) scanning from position i, where
\* closer is one of the characters of closers
RECURSIVE FindNames(_, _, _, _)
FindNames(code, i, kw, closers) ==
    IF i > Len(code) THEN <<>>
    ELSE LET ws  == SpaceRun(code, i + Len(kw))
             nb  == i + Len(kw) + ws
             wl  == WordRun(code, nb)
             ws2 == SpaceRun(code, nb + wl)
             cl  == nb + wl + ws2
             ok  == /\ StartsWithAt(code, i, kw)
                    /\ ws >= 1
                    /\ wl >= 1
                    /\ cl <= Len(code)
                    /\ code[cl] \in closers
         IN IF ok THEN <<SubSeq(code, nb, nb + wl - 1)>> \o FindNames(code, cl + 1, kw, closers)
            ELSE FindNames(code, i + 1, kw, closers)

_extract_function_names(code, language) ==
    IF language = LangPython THEN FindNames(code, 1, KwDef, {"("}) ELSE <<>>

_extract_class_names(code, language) ==
    IF language = LangPython THEN FindNames(code, 1, KwClass, {"(", ":"}) ELSE <<>>

-----------------------------------------------------------------------------
(* _extract_code_blocks: re.sub(r'```(\w+)?\n(.*?)```', ..., flags=DOTALL)  *)

\* a fence pattern whose closing delimiter is optional: an opening fence
\* without a closing one matches up to the end of the text
FenceMatchAt_Unclosed(s, i) ==
    LET wl     == WordRun(s, i + 3)
        nlpos  == i + 3 + wl
        bstart == nlpos + 1
        close  == FindFrom(s, bstart, Fence)
        ok     == /\ StartsWithAt(s, i, Fence)
                  /\ nlpos <= Len(s)
                  /\ s[nlpos] = NL
    IN [ok       |-> ok,
        language |-> IF ok /\ wl > 0 THEN SubSeq(s, i + 3, i + 2 + wl) ELSE LangPlain,
        content  |-> IF ~ok THEN <<>>
                     ELSE IF close # 0 THEN SubSeq(s, bstart, close - 1)
                     ELSE Drop(s, bstart),
        next     |-> IF ~ok THEN i + 1
                     ELSE IF close # 0 THEN close + 3
                     ELSE Len(s) + 1]

\* the match of the fence pattern that starts exactly at position i, if any:
\* three backquotes, an optional run of word characters, a newline, then the
\* shortest body that is followed by three backquotes
FenceMatchAt(s, i) ==
    LET wl     == WordRun(s, i + 3)
        nlpos  == i + 3 + wl
        bstart == nlpos + 1
        close  == FindFrom(s, bstart, Fence)
        ok     == /\ StartsWithAt(s, i, Fence)
                  /\ nlpos <= Len(s)
                  /\ s[nlpos] = NL
                  /\ close # 0
    IN [ok       |-> ok,
        language |-> IF ok /\ wl > 0 THEN SubSeq(s, i + 3, i + 2 + wl) ELSE LangPlain,
        content  |-> IF ok THEN SubSeq(s, bstart, close - 1) ELSE <<>>,
        next     |-> IF ok THEN close + 3 ELSE i + 1]

\* the entry registered for a matched block, had the names been extracted
\* whatever preserve_functions says
CodeBlockEntry_AlwaysNames(c, m) ==
    [language  |-> m.language,
     content   |-> m.content,
     type      |-> "fenced",
     functions |-> _extract_function_names(m.content, m.language),
     classes   |-> _extract_class_names(m.content, m.language)]

\* replace_code_block: the entry stored in code_blocks for one match
CodeBlockEntry(c, m) ==
    [language  |-> m.language,
     content   |-> m.content,
     type      |-> "fenced",
     functions |-> IF c.preserve_functions
                   THEN _extract_function_names(m.content, m.language) ELSE <<>>,
     classes   |-> IF c.preserve_functions
                   THEN _extract_class_names(m.content, m.language) ELSE <<>>]

\* the scan of re.sub from position i; out is the text produced so far and
\* blocks the entries stored so far (code_block_counter = Len(blocks))
RECURSIVE ExtractFrom(_, _, _, _, _)
ExtractFrom(c, s, i, out, blocks) ==
    IF i > Len(s) THEN [text |-> out, blocks |-> blocks]
    ELSE LET m == FenceMatchAt(s, i)
         IN IF m.ok
            THEN ExtractFrom(c, s, m.next, out \o BlockId(Len(blocks)),
                             Append(blocks, CodeBlockEntry(c, m)))
            ELSE ExtractFrom(c, s, i + 1, Append(out, s[i]), blocks)

_extract_code_blocks(c, s) == ExtractFrom(c, s, 1, <<>>, <<>>)

\* "part in code_blocks": the index of the entry whose key is part, 0 if none
BlockIndex(blocks, part) ==
    IF \E k \in 1..Len(blocks) : BlockId(k - 1) = part
    THEN CHOOSE k \in 1..Len(blocks) : BlockId(k - 1) = part
    ELSE 0

-----------------------------------------------------------------------------
(* _parse_markdown_structure                                               *)

\* a header match that takes the level from the title instead of the '#' run
HeaderMatch_TitleLevel(line) ==
    LET h    == CharRun(line, 1, "#")
        ws   == SpaceRun(line, h + 1)
        rest == Drop(line, h + 1 + ws)
    IN [ok    |-> h >= 1 /\ h <= 6 /\ ws >= 1 /\ Len(rest) >= 1,
        level |-> Len(rest),
        title |-> rest]

\* the header pattern, had it put no limit on the number of '#'
HeaderMatch_AnyDepth(line) ==
    LET h    == CharRun(line, 1, "#")
        ws   == SpaceRun(line, h + 1)
        rest == Drop(line, h + 1 + ws)
        ok   == /\ h >= 1
                /\ \/ ws >= 1 /\ Len(rest) >= 1
                   \/ ws >= 2
    IN [ok    |-> ok,
        level |-> h,
        title |-> IF Len(rest) >= 1 THEN rest
                  ELSE IF Len(line) >= 1 THEN <<line[Len(line)]>> ELSE <<>>]

\* re.match(r'^(#{1,6})\s+(.+)$', line) for a line without newline:
\* 1 to 6 '#', then whitespace, then at least one character.  When the line
\* ends in the whitespace run, \s+ gives its last character back to (.+).
HeaderMatch(line) ==
    LET h    == CharRun(line, 1, "#")
        ws   == SpaceRun(line, h + 1)
        rest == Drop(line, h + 1 + ws)
        ok   == /\ h >= 1
                /\ h <= 6
                /\ \/ ws >= 1 /\ Len(rest) >= 1
                   \/ ws >= 2
    IN [ok    |-> ok,
        level |-> h,
        title |-> IF Len(rest) >= 1 THEN rest
                  ELSE IF Len(line) >= 1 THEN <<line[Len(line)]>> ELSE <<>>]

TitleIntroduction == <<"I", "n", "t", "r", "o", "d", "u", "c", "t", "i", "o", "n">>
TitleContent == <<"C", "o", "n", "t", "e", "n", "t">>

\* the loop over lines with a new section that starts empty: the header line
\* itself is left out of the section's content
RECURSIVE ParseLines_DropHeader(_, _, _, _, _)
ParseLines_DropHeader(c, lines, k, cur, secs) ==
    IF k > Len(lines)
    THEN IF Len(cur.content) > 0 THEN Append(secs, cur) ELSE secs
    ELSE LET hm == HeaderMatch(lines[k])
         IN IF hm.ok /\ c.preserve_markdown_structure
            THEN ParseLines_DropHeader(c, lines, k + 1,
                            [level |-> hm.level, title |-> hm.title, content |-> <<>>],
                            IF Len(cur.content) > 0 THEN Append(secs, cur) ELSE secs)
            ELSE ParseLines_DropHeader(c, lines, k + 1,
                            [cur EXCEPT !.content = Append(@, lines[k])], secs)

\* the loop over lines storing the current section at every header, also
\* when it has no line yet
RECURSIVE ParseLines_KeepEmpty(_, _, _, _, _)
ParseLines_KeepEmpty(c, lines, k, cur, secs) ==
    IF k > Len(lines)
    THEN IF Len(cur.content) > 0 THEN Append(secs, cur) ELSE secs
    ELSE LET hm == HeaderMatch(lines[k])
         IN IF hm.ok /\ c.preserve_markdown_structure
            THEN ParseLines_KeepEmpty(c, lines, k + 1,
                            [level |-> hm.level, title |-> hm.title, content |-> <<lines[k]>>],
                            Append(secs, cur))
            ELSE ParseLines_KeepEmpty(c, lines, k + 1,
                            [cur EXCEPT !.content = Append(@, lines[k])], secs)

\* the loop over lines; cur is current_section, secs the sections stored so far
RECURSIVE ParseLines(_, _, _, _, _)
ParseLines(c, lines, k, cur, secs) ==
    IF k > Len(lines)
    THEN IF Len(cur.content) > 0 THEN Append(secs, cur) ELSE secs
    ELSE LET hm == HeaderMatch(lines[k])
         IN IF hm.ok /\ c.preserve_markdown_structure
            THEN ParseLines(c, lines, k + 1,
                            [level |-> hm.level, title |-> hm.title, content |-> <<lines[k]>>],
                            IF Len(cur.content) > 0 THEN Append(secs, cur) ELSE secs)
            ELSE ParseLines(c, lines, k + 1,
                            [cur EXCEPT !.content = Append(@, lines[k])], secs)

_parse_markdown_structure(c, s) ==
    LET lines == Split(s, <<NL>>)
        secs  == ParseLines(c, lines, 1,
                            [level |-> 0, title |-> TitleIntroduction, content |-> <<>>], <<>>)
    IN IF Len(secs) = 0 /\ Len(lines) > 0
       THEN <<[level |-> 0, title |-> TitleContent, content |-> lines]>>
       ELSE secs

-----------------------------------------------------------------------------
(* base_splitter: RecursiveCharacterTextSplitter(chunk_size, chunk_overlap,  *)
(* separators=["\n\n", "\n", ". ", " ", ""]), with the library's defaults    *)
(* keep_separator=True, strip_whitespace=True, length_function=len.         *)
(* The operators follow the library's _split_text_with_regex, _join_docs,  *)
(* _merge_splits, _split_text and create_documents.                        *)

\* the separator list without its last resort, the empty string
Separators_NoEmpty == << <<NL, NL>>, <<NL>>, <<".", SP>>, <<SP>> >>

Separators == << <<NL, NL>>, <<NL>>, <<".", SP>>, <<SP>>, <<>> >>

\* [s for s in xs if s != ""]
RECURSIVE NonEmpty(_)
NonEmpty(xs) ==
    IF Len(xs) = 0 THEN <<>>
    ELSE IF Len(xs[1]) = 0 THEN NonEmpty(Tail(xs))
    ELSE <<xs[1]>> \o NonEmpty(Tail(xs))

\* _split_text_with_regex(text, separator, keep_separator=True): every piece
\* but the first starts with the separator that preceded it; the empty
\* separator splits into single characters
SplitKeep(s, sep) ==
    IF Len(sep) = 0 THEN [k \in 1..Len(s) |-> <<s[k]>>]
    ELSE LET ps == Split(s, sep)
         IN NonEmpty([k \in 1..Len(ps) |-> IF k = 1 THEN ps[1] ELSE sep \o ps[k]])

\* sum of the lengths of the strings of xs
RECURSIVE TotalLen(_)
TotalLen(xs) == IF Len(xs) = 0 THEN 0 ELSE Len(xs[1]) + TotalLen(Tail(xs))

\* _join_docs(docs, separator="") followed by "if doc is not None: docs.append(doc)"
JoinedDoc(current_doc) ==
    LET t == Strip(Join(current_doc, <<>>))
    IN IF Len(t) = 0 THEN <<>> ELSE <<t>>

\* the while loop of _merge_splits (separator_len = 0): drop leading pieces
\* while more than chunk_overlap is kept or the next piece does not fit
RECURSIVE PopOverlap(_, _, _, _)
PopOverlap(c, current_doc, total, len) ==
    IF total > c.chunk_overlap \/ (total + len > c.chunk_size /\ total > 0)
    THEN PopOverlap(c, Tail(current_doc), total - Len(current_doc[1]), len)
    ELSE current_doc

\* the for loop of _merge_splits from piece k on
RECURSIVE MergeFrom(_, _, _, _, _)
MergeFrom(c, splits, k, current_doc, docs) ==
    IF k > Len(splits) THEN docs \o JoinedDoc(current_doc)
    ELSE LET d     == splits[k]
             total == TotalLen(current_doc)
         IN IF total + Len(d) > c.chunk_size /\ Len(current_doc) > 0
            THEN MergeFrom(c, splits, k + 1,
                           Append(PopOverlap(c, current_doc, total, Len(d)), d),
                           docs \o JoinedDoc(current_doc))
            ELSE MergeFrom(c, splits, k + 1, Append(current_doc, d), docs)

_merge_splits(c, splits) == MergeFrom(c, splits, 1, <<>>, <<>>)

\* the separator _split_text selects: the first of seps that is empty or occurs in s
RECURSIVE PickSeparator(_, _, _)
PickSeparator(s, seps, k) ==
    IF k > Len(seps) THEN [sep |-> seps[Len(seps)], rest |-> <<>>]
    ELSE IF Len(seps[k]) = 0 THEN [sep |-> <<>>, rest |-> <<>>]
    ELSE IF Contains(s, seps[k]) THEN [sep |-> seps[k], rest |-> SubSeq(seps, k + 1, Len(seps))]
    ELSE PickSeparator(s, seps, k + 1)

RECURSIVE _split_text(_, _, _)
RECURSIVE SplitPieces(_, _, _, _, _, _)

\* the loop of _split_text over the pieces from piece k on
SplitPieces(c, splits, k, new_separators, good, final) ==
    IF k > Len(splits)
    THEN IF Len(good) > 0 THEN final \o _merge_splits(c, good) ELSE final
    ELSE LET p == splits[k]
         IN IF Len(p) < c.chunk_size
            THEN SplitPieces(c, splits, k + 1, new_separators, Append(good, p), final)
            ELSE LET flushed == IF Len(good) > 0 THEN final \o _merge_splits(c, good) ELSE final
                     deeper  == IF Len(new_separators) = 0 THEN <<p>>
                                ELSE _split_text(c, p, new_separators)
                 IN SplitPieces(c, splits, k + 1, new_separators, <<>>, flushed \o deeper)

_split_text(c, s, seps) ==
    LET pick == PickSeparator(s, seps, 1)
    IN SplitPieces(c, SplitKeep(s, pick.sep), 1, pick.rest, <<>>, <<>>)

\* base_splitter.split_documents([Document(page_content=s, metadata=md)]):
\* one Document per piece, each with its own deep copy of md
BaseSplit(c, s, md) ==
    LET pieces == _split_text(c, s, Separators)
    IN [k \in 1..Len(pieces) |-> [page_content |-> pieces[k], metadata |-> md]]

-----------------------------------------------------------------------------
(* ast.parse and ast.walk on the Python subset the modelled blocks use:    *)
(* blank lines, comments, "def NAME():" and "class NAME:" headers, and     *)
(* one-line simple statements; blocks are delimited by indentation.        *)

KwReturn == <<"r", "e", "t", "u", "r", "n">>
KwImport == <<"i", "m", "p", "o", "r", "t">>
KwPass == <<"p", "a", "s", "s">>
Keywords == {KwDef, KwClass, KwReturn, KwImport, KwPass}

AllDigits(w) == Len(w) >= 1 /\ \A k \in 1..Len(w) : IsDigit(w[k])
AllWord(w) == Len(w) >= 1 /\ \A k \in 1..Len(w) : IsWordChar(w[k])
IsIdentifier(w) == AllWord(w) /\ ~IsDigit(w[1]) /\ w \notin Keywords

\* the line without its comment and trailing blanks
CodePart(line) ==
    LET h == FindFrom(line, 1, <<"#">>)
    IN RStrip(IF h = 0 THEN line ELSE SubSeq(line, 1, h - 1))

\* a one-line simple statement of the subset: NAME, NUMBER, pass, return,
\* return NAME, return NUMBER, import NAME
IsSimpleStmt(b) ==
    LET ws == Split(b, <<SP>>)
    IN \/ Len(ws) = 1 /\ (IsIdentifier(b) \/ AllDigits(b) \/ b = KwPass \/ b = KwReturn)
       \/ /\ Len(ws) = 2
          /\ \/ ws[1] = KwReturn /\ (IsIdentifier(ws[2]) \/ AllDigits(ws[2]))
             \/ ws[1] = KwImport /\ IsIdentifier(ws[2])

\* the logical line of physical line number lineno
LogicalLine(line, lineno) ==
    LET indent == CharRun(line, 1, SP)
        b      == Drop(CodePart(line), indent + 1)
        nm     == WordRun(b, 5)
        cn     == WordRun(b, 7)
        isdef  == /\ StartsWithAt(b, 1, KwDef \o <<SP>>)
                  /\ Drop(b, 5 + nm) = <<"(", ")", ":">>
                  /\ IsIdentifier(SubSeq(b, 5, 4 + nm))
        iscls  == /\ StartsWithAt(b, 1, KwClass \o <<SP>>)
                  /\ Drop(b, 7 + cn) = <<":">>
                  /\ IsIdentifier(SubSeq(b, 7, 6 + cn))
    IN [lineno |-> lineno,
        indent |-> indent,
        kind   |-> IF Len(b) = 0 THEN "blank"
                   ELSE IF isdef THEN "def"
                   ELSE IF iscls THEN "class"
                   ELSE IF IsSimpleStmt(b) THEN "stmt"
                   ELSE "bad",
        name   |-> IF isdef THEN SubSeq(b, 5, 4 + nm)
                   ELSE IF iscls THEN SubSeq(b, 7, 6 + cn)
                   ELSE <<>>]

IsHeader(l) == l.kind \in {"def", "class"}

\* the non-blank logical lines of code_lines, in order
LogicalLines(code_lines) ==
    SelectSeq([k \in 1..Len(code_lines) |-> LogicalLine(code_lines[k], k)],
              LAMBDA l : l.kind # "blank")

\* the indentation stack after a line of the given indent: levels above it are closed
RECURSIVE Dedent(_, _)
Dedent(stack, indent) ==
    IF Len(stack) > 0 /\ stack[Len(stack)] > indent
    THEN Dedent(SubSeq(stack, 1, Len(stack) - 1), indent)
    ELSE stack

\* whether the logical lines ls[k..] form a valid program, given the stack of
\* open indentation levels and whether the previous line was a header
RECURSIVE ValidFrom(_, _, _, _)
ValidFrom(ls, k, stack, expect) ==
    IF k > Len(ls) THEN ~expect
    ELSE LET l   == ls[k]
             top == stack[Len(stack)]
             ded == Dedent(stack, l.indent)
         IN IF l.kind = "bad" THEN FALSE
            ELSE IF expect
            THEN l.indent > top /\ ValidFrom(ls, k + 1, Append(stack, l.indent), IsHeader(l))
            ELSE /\ l.indent <= top
                 /\ ded[Len(ded)] = l.indent
                 /\ ValidFrom(ls, k + 1, ded, IsHeader(l))

\* ast.parse(code) raises SyntaxError exactly when this is false
Parses(code) == ValidFrom(LogicalLines(Split(code, <<NL>>)), 1, <<0>>, FALSE)

\* the index of the last logical line of the body of header ls[j]
RECURSIVE BodyEnd(_, _, _)
BodyEnd(ls, j, k) ==
    IF k + 1 <= Len(ls) /\ ls[k + 1].indent > ls[j].indent THEN BodyEnd(ls, j, k + 1) ELSE k

\* the FunctionDef / ClassDef node of header ls[j]; depth is its depth in the tree
DefNode(ls, j) ==
    [kind       |-> ls[j].kind,
     name       |-> ls[j].name,
     lineno     |-> ls[j].lineno,
     end_lineno |-> ls[BodyEnd(ls, j, j)].lineno,
     depth      |-> 1 + Cardinality({i \in 1..(j - 1) : IsHeader(ls[i]) /\ BodyEnd(ls, i, i) >= j})]

\* the nodes of depth d and deeper, in the breadth-first order of ast.walk
RECURSIVE ByDepth(_, _, _)
ByDepth(nodes, d, maxd) ==
    IF d > maxd THEN <<>>
    ELSE SelectSeq(nodes, LAMBDA n : n.depth = d) \o ByDepth(nodes, d + 1, maxd)

\* [node for node in ast.walk(ast.parse(code)) if isinstance(node, (FunctionDef, ClassDef))]
WalkDefs(code) ==
    LET ls    == LogicalLines(Split(code, <<NL>>))
        hs    == SelectSeq([j \in 1..Len(ls) |-> j], LAMBDA j : IsHeader(ls[j]))
        nodes == [k \in 1..Len(hs) |-> DefNode(ls, hs[k])]
    IN ByDepth(nodes, 1, Len(ls))

-----------------------------------------------------------------------------
(* _split_large_code_block                                                 *)

\* Python's None in the function_name / class_name entries; a name found by
\* the parser is never empty
NoneValue == <<>>

\* {**parent_metadata, key: value, ...}: the keys written after the parent's win
WithMeta(parent_metadata, own) == own @@ parent_metadata

\* f"```{language}\n{code}\n```"
Fenced(language, code) == Fence \o language \o <<NL>> \o code \o <<NL>> \o Fence

\* the chunk appended for one node yielded by ast.walk
DefChunk(code_lines, node, language, section, parent_metadata) ==
    [page_content |->
        Fenced(LangPython, Join(SubSeq(code_lines, node.lineno, node.end_lineno), <<NL>>)),
     metadata |-> WithMeta(parent_metadata,
        [section_title |-> section.title,
         section_level |-> section.level,
         chunk_type    |-> IF node.kind = "def" THEN "code_function" ELSE "code_class",
         language      |-> language,
         has_code      |-> TRUE,
         function_name |-> IF node.kind = "def" THEN node.name ELSE NoneValue,
         class_name    |-> IF node.kind = "class" THEN node.name ELSE NoneValue])]

\* a line-count loop that advances by one line less than a group holds, so
\* that adjacent groups share a line
RECURSIVE LineChunks_Overlapping(_, _, _, _, _, _)
LineChunks_Overlapping(lines, i, chunk_lines, language, section, parent_metadata) ==
    IF i >= Len(lines) THEN <<>>
    ELSE << [page_content |->
                Fenced(language,
                       Join(SubSeq(lines, i + 1, Min(i + chunk_lines, Len(lines))), <<NL>>)),
             metadata |-> WithMeta(parent_metadata,
                [section_title |-> section.title,
                 section_level |-> section.level,
                 chunk_type    |-> "code_partial",
                 language      |-> language,
                 has_code      |-> TRUE])] >>
         \o LineChunks_Overlapping(lines, i + chunk_lines - 1, chunk_lines,
                                   language, section, parent_metadata)

\* the chunks of the line-count loop for the lines from index i (0-based) on
RECURSIVE LineChunks(_, _, _, _, _, _)
LineChunks(lines, i, chunk_lines, language, section, parent_metadata) ==
    IF i >= Len(lines) THEN <<>>
    ELSE << [page_content |->
                Fenced(language,
                       Join(SubSeq(lines, i + 1, Min(i + chunk_lines, Len(lines))), <<NL>>)),
             metadata |-> WithMeta(parent_metadata,
                [section_title |-> section.title,
                 section_level |-> section.level,
                 chunk_type    |-> "code_partial",
                 language      |-> language,
                 has_code      |-> TRUE])] >>
         \o LineChunks(lines, i + chunk_lines, chunk_lines, language, section, parent_metadata)

\* what ast.parse(code) does: returns a tree or raises SyntaxError
ParseOutcome(code) == IF Parses(code) THEN "ok" ELSE "SyntaxError"

\* a handler that lists the wrong exception class
CaughtExceptions_Wrong == {"ValueError"}

\* the exceptions the except clauses after the try block catch
\* (except SyntaxError; except Exception, of which SyntaxError is a subclass)
CaughtExceptions == {"SyntaxError", "Exception"}

\* whether the try block is entered and an exception leaves _split_large_code_block
LargeBlockRaises(c, code_info) ==
    /\ code_info.language = LangPython
    /\ c.preserve_functions
    /\ ParseOutcome(code_info.content) # "ok"
    /\ ParseOutcome(code_info.content) \notin CaughtExceptions

\* a splitter that tries the Python parser on every block, whatever its language tag
_split_large_code_block_AnyLanguage(c, code_info, section, parent_metadata) ==
    LET code_content == code_info.content
        language     == code_info.language
        code_lines   == Split(code_content, <<NL>>)
        nodes        == WalkDefs(code_content)
    IN IF c.preserve_functions /\ ParseOutcome(code_content) = "ok"
       THEN [k \in 1..Len(nodes) |->
                DefChunk(code_lines, nodes[k], language, section, parent_metadata)]
       ELSE LineChunks(code_lines, 0, Max(10, c.chunk_size \div 40),
                       language, section, parent_metadata)

_split_large_code_block(c, code_info, section, parent_metadata) ==
    LET code_content == code_info.content
        language     == code_info.language
        code_lines   == Split(code_content, <<NL>>)
        nodes        == WalkDefs(code_content)
    IN IF language = LangPython /\ c.preserve_functions /\ ParseOutcome(code_content) = "ok"
       THEN [k \in 1..Len(nodes) |->
                DefChunk(code_lines, nodes[k], language, section, parent_metadata)]
       ELSE LineChunks(code_lines, 0, Max(10, c.chunk_size \div 40),
                       language, section, parent_metadata)

-----------------------------------------------------------------------------
(* _chunk_section                                                          *)

\* the match of r'__CODE_BLOCK_\d+__' that starts exactly at position i: its length, 0 if none
PlaceholderLenAt(s, i) ==
    LET dr == DigitRun(s, i + Len(PlaceholderPrefix))
    IN IF /\ StartsWithAt(s, i, PlaceholderPrefix)
          /\ dr >= 1
          /\ StartsWithAt(s, i + Len(PlaceholderPrefix) + dr, PlaceholderSuffix)
       THEN Len(PlaceholderPrefix) + dr + Len(PlaceholderSuffix)
       ELSE 0

\* re.split(r'(__CODE_BLOCK_\d+__)', s): texts and matched tokens alternate;
\* acc is the text collected since the last match
RECURSIVE SplitPlaceholders(_, _, _)
SplitPlaceholders(s, i, acc) ==
    IF i > Len(s) THEN <<acc>>
    ELSE LET n == PlaceholderLenAt(s, i)
         IN IF n > 0
            THEN <<acc, SubSeq(s, i, i + n - 1)>> \o SplitPlaceholders(s, i + n, <<>>)
            ELSE SplitPlaceholders(s, i + 1, Append(acc, s[i]))

\* the prose chunks of a section, had has_code been set as for code
ProseChunks_HasCode(c, current_text_chunk, section, parent_metadata) ==
    LET text_to_split == Strip(Join(current_text_chunk, <<NL>>))
        text_docs     == BaseSplit(c, text_to_split, parent_metadata)
    IN IF Len(current_text_chunk) = 0 \/ Len(text_to_split) = 0 THEN <<>>
       ELSE [k \in 1..Len(text_docs) |->
                [page_content |-> text_docs[k].page_content,
                 metadata |-> WithMeta(text_docs[k].metadata,
                    [section_title |-> section.title,
                     section_level |-> section.level,
                     chunk_type    |-> "text",
                     has_code      |-> TRUE])]]

\* the text chunks made of the accumulated prose parts ("if current_text_chunk:")
ProseChunks(c, current_text_chunk, section, parent_metadata) ==
    LET text_to_split == Strip(Join(current_text_chunk, <<NL>>))
        text_docs     == BaseSplit(c, text_to_split, parent_metadata)
    IN IF Len(current_text_chunk) = 0 \/ Len(text_to_split) = 0 THEN <<>>
       ELSE [k \in 1..Len(text_docs) |->
                [page_content |-> text_docs[k].page_content,
                 metadata |-> WithMeta(text_docs[k].metadata,
                    [section_title |-> section.title,
                     section_level |-> section.level,
                     chunk_type    |-> "text",
                     has_code      |-> FALSE])]]

\* the code block branch with the comparison >= in place of >
CodeChunks_AtLeast(c, part, code_info, section, parent_metadata) ==
    IF Len(code_info.content) >= c.code_block_max_size /\ c.preserve_code_blocks
    THEN _split_large_code_block(c, code_info, section, parent_metadata)
    ELSE << [page_content |-> part,
             metadata |-> WithMeta(parent_metadata,
                [section_title |-> section.title,
                 section_level |-> section.level,
                 chunk_type    |-> "code",
                 language      |-> code_info.language,
                 has_code      |-> TRUE,
                 functions     |-> code_info.functions,
                 classes       |-> code_info.classes])] >>

\* the chunks of one code block, had the size alone decided about splitting
CodeChunks_IgnoreFlag(c, part, code_info, section, parent_metadata) ==
    IF Len(code_info.content) > c.code_block_max_size
    THEN _split_large_code_block(c, code_info, section, parent_metadata)
    ELSE << [page_content |-> part,
             metadata |-> WithMeta(parent_metadata,
                [section_title |-> section.title,
                 section_level |-> section.level,
                 chunk_type    |-> "code",
                 language      |-> code_info.language,
                 has_code      |-> TRUE,
                 functions     |-> code_info.functions,
                 classes       |-> code_info.classes])] >>

\* the chunk(s) of one code block reference
CodeChunks(c, part, code_info, section, parent_metadata) ==
    IF Len(code_info.content) > c.code_block_max_size /\ c.preserve_code_blocks
    THEN _split_large_code_block(c, code_info, section, parent_metadata)
    ELSE << [page_content |-> part,
             metadata |-> WithMeta(parent_metadata,
                [section_title |-> section.title,
                 section_level |-> section.level,
                 chunk_type    |-> "code",
                 language      |-> code_info.language,
                 has_code      |-> TRUE,
                 functions     |-> code_info.functions,
                 classes       |-> code_info.classes])] >>

\* the loop over parts from part k on, then the final flush
RECURSIVE ChunkParts(_, _, _, _, _, _, _, _)
ChunkParts(c, parts, k, current_text_chunk, out, blocks, section, parent_metadata) ==
    IF k > Len(parts)
    THEN out \o ProseChunks(c, current_text_chunk, section, parent_metadata)
    ELSE LET part == parts[k]
             b    == BlockIndex(blocks, part)
         IN IF StartsWithAt(part, 1, PlaceholderPrefix) /\ b # 0
            THEN ChunkParts(c, parts, k + 1, <<>>,
                            out \o ProseChunks(c, current_text_chunk, section, parent_metadata)
                                \o CodeChunks(c, part, blocks[b], section, parent_metadata),
                            blocks, section, parent_metadata)
            ELSE IF Len(Strip(part)) > 0
            THEN ChunkParts(c, parts, k + 1, Append(current_text_chunk, part), out,
                            blocks, section, parent_metadata)
            ELSE ChunkParts(c, parts, k + 1, current_text_chunk, out,
                            blocks, section, parent_metadata)

\* whether an exception leaves _chunk_section: only the large-block splitter can raise
SectionRaises(c, section, blocks) ==
    LET parts == SplitPlaceholders(Join(section.content, <<NL>>), 1, <<>>)
    IN \E k \in 1..Len(parts) :
          LET b == BlockIndex(blocks, parts[k])
          IN /\ StartsWithAt(parts[k], 1, PlaceholderPrefix)
             /\ b # 0
             /\ Len(blocks[b].content) > c.code_block_max_size
             /\ c.preserve_code_blocks
             /\ LargeBlockRaises(c, blocks[b])

_chunk_section(c, section, blocks, parent_metadata) ==
    LET section_text == Join(section.content, <<NL>>)
        parts        == SplitPlaceholders(section_text, 1, <<>>)
    IN ChunkParts(c, parts, 1, <<>>, <<>>, blocks, section, parent_metadata)

-----------------------------------------------------------------------------
(* _restore_code_blocks                                                    *)

\* the loop over code_blocks.items() from entry k on, applied to one content
RECURSIVE RestoreContent(_, _, _)
RestoreContent(content, blocks, k) ==
    IF k > Len(blocks) THEN content
    ELSE IF Contains(content, BlockId(k - 1))
    THEN RestoreContent(
             ReplaceAll(content, BlockId(k - 1),
                        Fenced(blocks[k].language, blocks[k].content)),
             blocks, k + 1)
    ELSE RestoreContent(content, blocks, k + 1)

_restore_code_blocks(cs, blocks) ==
    [k \in 1..Len(cs) |->
        [page_content |-> RestoreContent(cs[k].page_content, blocks, 1),
         metadata     |-> cs[k].metadata]]

-----------------------------------------------------------------------------
(* Inputs: texts, splitter configurations and caller metadata              *)

\* '# A\n'
SegHeaderA ==
    <<"#", SP, "A", NL>>

\* '## B\n'
SegHeaderB ==
    <<"#", "#", SP, "B", NL>>

\* 'a b\n'
SegProse ==
    <<"a", SP, "b", NL>>

\* '\n'
SegBlank ==
    <<NL>>

\* '```python\ndef f():\n r\n```\n'
SegPyBlock ==
    <<BT, BT, BT, "p", "y", "t", "h", "o", "n", NL, "d", "e", "f", SP, "f", "(", ")",
    ":", NL, SP, "r", NL, BT, BT, BT, NL>>

\* '```\nx\n```'
SegPlainBlock ==
    <<BT, BT, BT, NL, "x", NL, BT, BT, BT>>

\* '```\n'
SegFence ==
    <<BT, BT, BT, NL>>

\* '__CODE_BLOCK_0__'
SegPlaceholder ==
    <<"_", "_", "C", "O", "D", "E", "_", "B", "L", "O", "C", "K", "_", "0", "_", "_">>

\* 'import x\n'
CodeStmt ==
    <<"i", "m", "p", "o", "r", "t", SP, "x", NL>>

\* 'def f():\n r\n'
CodeDefF ==
    <<"d", "e", "f", SP, "f", "(", ")", ":", NL, SP, "r", NL>>

\* 'def g():\n def h():\n  r\n r\n'
CodeDefG ==
    <<"d", "e", "f", SP, "g", "(", ")", ":", NL, SP, "d", "e", "f", SP, "h", "(", ")",
    ":", NL, SP, SP, "r", NL, SP, "r", NL>>

\* 'class C:\n def m():\n  r\n'
CodeClass ==
    <<"c", "l", "a", "s", "s", SP, "C", ":", NL, SP, "d", "e", "f", SP, "m", "(", ")",
    ":", NL, SP, SP, "r", NL>>

\* '(\n'
CodeBad ==
    <<"(", NL>>

\* '1\n2\n3\n4\n5\n6\n7\n8\n9\n'
CodeFiller ==
    <<"1", NL, "2", NL, "3", NL, "4", NL, "5", NL, "6", NL, "7", NL, "8", NL, "9", NL>>

\* '# Intro\nHello world.\n\n```python\ndef f():\n    return 1\n```\n'
ScenarioText ==
    <<"#", SP, "I", "n", "t", "r", "o", NL, "H", "e", "l", "l", "o", SP, "w", "o", "r",
    "l", "d", ".", NL, NL, BT, BT, BT, "p", "y", "t", "h", "o", "n", NL, "d", "e", "f",
    SP, "f", "(", ")", ":", NL, SP, SP, SP, SP, "r", "e", "t", "u", "r", "n", SP, "1",
    NL, BT, BT, BT, NL>>

\* 'x x\n'
SegProseX ==
    <<"x", SP, "x", NL>>

\* 'z z\n'
SegProseZ ==
    <<"z", SP, "z", NL>>

\* '```python\ndef x():\n x\n```\n'
SegPyBlockX ==
    <<BT, BT, BT, "p", "y", "t", "h", "o", "n", NL, "d", "e", "f", SP, "x", "(", ")",
    ":", NL, SP, "x", NL, BT, BT, BT, NL>>

\* '```python\ndef z():\n z\n```\n'
SegPyBlockZ ==
    <<BT, BT, BT, "p", "y", "t", "h", "o", "n", NL, "d", "e", "f", SP, "z", "(", ")",
    ":", NL, SP, "z", NL, BT, BT, BT, NL>>

\* number of segments a generated document is made of, at most
MaxSegs == 3

\* number of segments the body of a generated large code block is made of, at most
MaxCodeSegs == 3

\* number of tokens a generated prose text is made of, at most
MaxWords == 4

\* number of segments a section of a generated two-section document is made of, at most
MaxSectionSegs == 2

DocSegments == {SegHeaderA, SegHeaderB, SegProse, SegBlank, SegPyBlock,
                SegPlainBlock, SegFence, SegPlaceholder}

CodeSegments == {CodeStmt, CodeDefF, CodeDefG, CodeClass, CodeBad, CodeFiller}

ProseTokens == {<<"a", "b", SP>>, <<"c", SP>>, <<"d">>, <<".", SP>>, <<NL>>, <<"#", SP>>}

\* the concatenations of at most n elements of segs
RECURSIVE Concats(_, _)
Concats(segs, n) ==
    IF n = 0 THEN {<<>>}
    ELSE LET shorter == Concats(segs, n - 1)
         IN shorter \cup {p \o v : p \in shorter, v \in segs}

StructuredTexts == Concats(DocSegments, MaxSegs)

\* one python block whose body is made of code segments, alone or under a header
LargeBlockTexts ==
    {pre \o Fence \o LangPython \o <<NL>> \o body \o Fence :
        pre \in {<<>>, SegHeaderA}, body \in Concats(CodeSegments, MaxCodeSegs)}

\* a language tag other than python
LangOther == <<"j", "s">>

\* one block that is not tagged python: no tag at all, or the tag js
OtherBlockTexts ==
    {Fence \o tag \o <<NL>> \o body \o Fence :
        tag \in {<<>>, LangOther}, body \in Concats(CodeSegments, MaxCodeSegs)}

\* documents around blocks whose bodies are 2, 12 and 12 + 12 characters long
BoundaryTexts ==
    {pre \o blk \o post :
        pre \in {<<>>, SegProse, SegHeaderA},
        blk \in {SegPyBlock, SegPlainBlock, SegPlainBlock \o SegPyBlock},
        post \in {<<>>, SegProse}}

\* a python block of 38 lines that does not parse
LongBlockText ==
    Fence \o LangPython \o <<NL>> \o CodeBad \o CodeFiller \o CodeFiller
          \o CodeFiller \o CodeFiller \o Fence

ProseTexts == Concats(ProseTokens, MaxWords)

\* an optional preamble, then the header line '# A' and its content, then the
\* header line '## B' and its content; the content under A is written with the
\* letter x only and the content under B with the letter z only
SectionedTexts ==
    {pre \o SegHeaderA \o xa \o SegHeaderB \o zb :
        pre \in {<<>>, SegProse},
        xa \in Concats({SegProseX, SegBlank, SegPyBlockX}, MaxSectionSegs),
        zb \in Concats({SegProseZ, SegBlank, SegPyBlockZ}, MaxSectionSegs)}

\* '```python\n# s\nx\n```\n': a python block that begins with the comment '# s'
SegCommentBlock ==
    <<BT, BT, BT, "p", "y", "t", "h", "o", "n", NL, "#", SP, "s", NL, "x", NL,
      BT, BT, BT, NL>>

\* '```\n## s\nx\n```\n': an untagged block that begins with the line '## s'
SegHashBlock ==
    <<BT, BT, BT, NL, "#", "#", SP, "s", NL, "x", NL, BT, BT, BT, NL>>

\* one block with a line that has the form of a header, in a document with
\* prose and headers before and after it
HeaderInCodeTexts ==
    {pre \o blk \o post :
        pre \in {<<>>, SegProse, SegHeaderA, SegProse \o SegHeaderA,
                 SegHeaderA \o SegProse},
        blk \in {SegCommentBlock, SegHashBlock},
        post \in {<<>>, SegProse, SegHeaderB \o SegProse}}

\* number of lines a generated text of header-like lines is made of, at most
MaxLines == 2

\* lines at and around the form of a header: '# A', '###### A', '####### A',
\* '#A', '#  ', '# ', ' # A', 'a' and the empty line, each with its line break
HeaderLineSegs ==
    {<<"#", SP, "A", NL>>,
     <<"#", "#", "#", "#", "#", "#", SP, "A", NL>>,
     <<"#", "#", "#", "#", "#", "#", "#", SP, "A", NL>>,
     <<"#", "A", NL>>,
     <<"#", SP, SP, NL>>,
     <<"#", SP, NL>>,
     <<SP, "#", SP, "A", NL>>,
     <<"a", NL>>,
     <<NL>>}

HeaderLineTexts == Concats(HeaderLineSegs, MaxLines)

\* the constructor's defaults
DefaultConfig ==
    [chunk_size |-> 1500, chunk_overlap |-> 200, code_block_max_size |-> 3000,
     preserve_code_blocks |-> TRUE, preserve_functions |-> TRUE,
     preserve_markdown_structure |-> TRUE]

\* a splitter with small sizes, so that short texts and short blocks are split
SmallConfig ==
    [DefaultConfig EXCEPT !.chunk_size = 6, !.chunk_overlap = 2, !.code_block_max_size = 5]

\* a splitter with smaller chunks still
TinyConfig ==
    [DefaultConfig EXCEPT !.chunk_size = 4, !.chunk_overlap = 2, !.code_block_max_size = 5]

\* the default chunk size with a small code-block threshold
WideConfig == [DefaultConfig EXCEPT !.code_block_max_size = 5]

\* small sizes with one of the preserve_* flags switched off
FlagConfigs ==
    {[SmallConfig EXCEPT !.preserve_code_blocks = FALSE],
     [SmallConfig EXCEPT !.preserve_functions = FALSE],
     [SmallConfig EXCEPT !.preserve_markdown_structure = FALSE]}

\* the defaults with function and class extraction switched off
NoFunctionsConfig == [DefaultConfig EXCEPT !.preserve_functions = FALSE]

NoMetadata == [k \in {} |-> <<>>]

\* what a document loader supplies: source and language of the page
LoaderMetadata == [source |-> <<"u">>, language |-> <<"e", "n">>]

\* metadata whose keys are all keys the chunker writes
ClashingMetadata ==
    [section_title |-> <<"T">>, section_level |-> 9, chunk_type |-> "doc",
     has_code |-> FALSE, language |-> <<"e", "n">>]

Metadatas == {NoMetadata, LoaderMetadata, ClashingMetadata}

\* thresholds at and just under the length of the body of SegPyBlock
BoundaryConfigs ==
    {[DefaultConfig EXCEPT !.code_block_max_size = 12],
     [DefaultConfig EXCEPT !.code_block_max_size = 11]}

Inputs ==
    ({[text |-> t, cfg |-> c, metadata |-> NoMetadata] :
         t \in StructuredTexts, c \in {DefaultConfig, SmallConfig}})
    \cup
    ({[text |-> t, cfg |-> c, metadata |-> NoMetadata] :
         t \in LargeBlockTexts, c \in {SmallConfig, WideConfig} \cup FlagConfigs})
    \cup
    ({[text |-> t, cfg |-> c, metadata |-> NoMetadata] :
         t \in ProseTexts, c \in {SmallConfig, TinyConfig}})
    \cup
    ({[text |-> t, cfg |-> c, metadata |-> md] :
         t \in SectionedTexts, c \in {DefaultConfig, SmallConfig} \cup FlagConfigs,
         md \in {NoMetadata, ClashingMetadata}})
    \cup
    ({[text |-> t, cfg |-> c, metadata |-> md] :
         t \in {ScenarioText, LongBlockText}, c \in {DefaultConfig, WideConfig},
         md \in Metadatas})
    \cup
    ({[text |-> t, cfg |-> c, metadata |-> NoMetadata] :
         t \in OtherBlockTexts, c \in {SmallConfig, WideConfig}})
    \cup
    ({[text |-> t, cfg |-> c, metadata |-> NoMetadata] :
         t \in BoundaryTexts, c \in BoundaryConfigs})
    \cup
    ({[text |-> t, cfg |-> c, metadata |-> NoMetadata] :
         t \in HeaderInCodeTexts, c \in {DefaultConfig, SmallConfig}})
    \cup
    ({[text |-> t, cfg |-> DefaultConfig, metadata |-> NoMetadata] :
         t \in HeaderLineTexts})
    \cup
    ({[text |-> t, cfg |-> NoFunctionsConfig, metadata |-> NoMetadata] :
         t \in BoundaryTexts})

-----------------------------------------------------------------------------
(* The state machine: one call of split_text                               *)

Init ==
    /\ \E in \in Inputs :
          /\ text = in.text
          /\ cfg = in.cfg
          /\ metadata = in.metadata
    /\ pc = "start"
    /\ text_with_placeholders = <<>>
    /\ code_blocks = <<>>
    /\ sections = <<>>
    /\ sec_done = 0
    /\ chunks = <<>>
    /\ final_chunks = <<>>
    /\ calls = <<>>
    /\ NoBatch
    /\ NoServer

\* step 1 of split_text
Extract ==
    /\ pc = "start"
    /\ LET r == _extract_code_blocks(cfg, text)
       IN /\ text_with_placeholders' = r.text
          /\ code_blocks' = r.blocks
    /\ pc' = "extracted"
    /\ UNCHANGED <<cfg, text, metadata, sections, sec_done, chunks, final_chunks, calls, batch, server>>

\* step 2 of split_text, had it read the text as given instead of the text with placeholders
ParseStructure_RawText ==
    /\ pc = "extracted"
    /\ sections' = _parse_markdown_structure(cfg, text)
    /\ pc' = "chunking"
    /\ UNCHANGED <<cfg, text, metadata, text_with_placeholders, code_blocks,
                   sec_done, chunks, final_chunks, calls, batch, server>>

\* step 2 of split_text
ParseStructure ==
    /\ pc = "extracted"
    /\ sections' = _parse_markdown_structure(cfg, text_with_placeholders)
    /\ pc' = "chunking"
    /\ UNCHANGED <<cfg, text, metadata, text_with_placeholders, code_blocks,
                   sec_done, chunks, final_chunks, calls, batch, server>>

\* one iteration of the loop of step 3
ChunkSection ==
    /\ pc = "chunking"
    /\ sec_done < Len(sections)
    /\ IF SectionRaises(cfg, sections[sec_done + 1], code_blocks)
       THEN /\ pc' = "raised"
            /\ UNCHANGED <<sec_done, chunks>>
       ELSE /\ chunks' = chunks \o _chunk_section(cfg, sections[sec_done + 1],
                                                  code_blocks, metadata)
            /\ sec_done' = sec_done + 1
            /\ pc' = pc
    /\ UNCHANGED <<cfg, text, metadata, text_with_placeholders, code_blocks,
                   sections, final_chunks, calls, batch, server>>

\* step 4 of split_text, and the return
Restore ==
    /\ pc = "chunking"
    /\ sec_done = Len(sections)
    /\ final_chunks' = _restore_code_blocks(chunks, code_blocks)
    /\ pc' = "done"
    /\ UNCHANGED <<cfg, text, metadata, text_with_placeholders, code_blocks,
                   sections, sec_done, chunks, calls, batch, server>>

Next == Extract \/ ParseStructure \/ ChunkSection \/ Restore

Spec == Init /\ [][Next]_vars

-----------------------------------------------------------------------------
(* Several calls of split_text on one instance.  The instance holds the    *)
(* constructor arguments (cfg) only; everything else a call uses is local  *)
(* to it: text and metadata are its arguments, code_blocks and             *)
(* code_block_counter are locals of its _extract_code_blocks, sections and *)
(* chunks locals of split_text.  A step of a call is the start of the      *)
(* call, one match of re.sub with its callback replace_code_block, the end *)
(* of the scan, the parse, the chunking of one section, or the restoration.*)

\* number of calls that share the instance
MaxCalls == 2

\* 'a b\n# A\n```python\ndef f():\n r\n```\na b\n```\nx\n```'
TextTwoBlocks == SegProse \o SegHeaderA \o SegPyBlock \o SegProse \o SegPlainBlock

SharedTexts == {SegProse, SegPlainBlock, SegPyBlock \o SegPlainBlock, TextTwoBlocks}

\* the metadata the caller passes with call i
CallMetadata(i) == [source |-> Dec(i)]

\* the position of the first match of the fence pattern at or after i, 0 if none
RECURSIVE NextFence(_, _)
NextFence(s, i) ==
    IF i > Len(s) THEN 0
    ELSE IF FenceMatchAt(s, i).ok THEN i
    ELSE NextFence(s, i + 1)

\* a counter kept by the instance and never reset: the number of blocks
\* registered so far by all the calls
CounterOf_Instance(cs, i) ==
    LET RECURSIVE Sum(_)
        Sum(k) == IF k = 0 THEN 0 ELSE cs[k].code_block_counter + Sum(k - 1)
    IN Sum(Len(cs))

\* code_block_counter as replace_code_block of call i reads it: the local of
\* the enclosing _extract_code_blocks
CounterOf(cs, i) == cs[i].code_block_counter

\* the chunks of the sections from section k on ("for section in sections")
RECURSIVE ChunkSections(_, _, _, _, _)
ChunkSections(c, secs, k, blocks, md) ==
    IF k > Len(secs) THEN <<>>
    ELSE _chunk_section(c, secs[k], blocks, md)
         \o ChunkSections(c, secs, k + 1, blocks, md)

\* split_text run from start to end on its own
split_text(c, t, md) ==
    LET r    == _extract_code_blocks(c, t)
        secs == _parse_markdown_structure(c, r.text)
    IN _restore_code_blocks(ChunkSections(c, secs, 1, r.blocks, md), r.blocks)

InitShared ==
    /\ cfg \in {DefaultConfig, SmallConfig}
    /\ calls \in [1..MaxCalls ->
                    {[text |-> t, pc |-> "idle", pos |-> 1, code_block_counter |-> 0,
                      block_ids |-> <<>>, text_with_placeholders |-> <<>>,
                      code_blocks |-> <<>>, sections |-> <<>>, sec_done |-> 0,
                      chunks |-> <<>>, final_chunks |-> <<>>] : t \in SharedTexts}]
    /\ text = <<>>
    /\ metadata = NoMetadata
    /\ pc = "start"
    /\ text_with_placeholders = <<>>
    /\ code_blocks = <<>>
    /\ sections = <<>>
    /\ sec_done = 0
    /\ chunks = <<>>
    /\ final_chunks = <<>>
    /\ NoBatch
    /\ NoServer

\* the variables of the single call of Spec, which SpecShared does not use
single == <<text, metadata, pc, text_with_placeholders, code_blocks,
            sections, sec_done, chunks, final_chunks>>

\* call i enters split_text and _extract_code_blocks
Invoke(i) ==
    /\ calls[i].pc = "idle"
    /\ calls' = [calls EXCEPT ![i].pc = "extracting",
                              ![i].code_block_counter = 0,
                              ![i].code_blocks = <<>>]
    /\ UNCHANGED <<cfg, single, batch, server>>

\* replace_code_block, had it not advanced code_block_counter
ReplaceBlock_KeepCounter(i) ==
    LET f == calls[i]
        j == NextFence(f.text, f.pos)
        m == FenceMatchAt(f.text, j)
        block_id == BlockId(CounterOf(calls, i))
    IN /\ f.pc = "extracting"
       /\ j # 0
       /\ calls' = [calls EXCEPT
             ![i].text_with_placeholders = @ \o SubSeq(f.text, f.pos, j - 1) \o block_id,
             ![i].block_ids = Append(@, block_id),
             ![i].code_blocks = Append(@, CodeBlockEntry(cfg, m)),
             ![i].pos = m.next]
       /\ UNCHANGED <<cfg, single, batch, server>>

\* re.sub of call i finds its next match and calls replace_code_block
ReplaceBlock(i) ==
    LET f == calls[i]
        j == NextFence(f.text, f.pos)
        m == FenceMatchAt(f.text, j)
        block_id == BlockId(CounterOf(calls, i))
    IN /\ f.pc = "extracting"
       /\ j # 0
       /\ calls' = [calls EXCEPT
             ![i].text_with_placeholders = @ \o SubSeq(f.text, f.pos, j - 1) \o block_id,
             ![i].code_block_counter = @ + 1,
             ![i].block_ids = Append(@, block_id),
             ![i].code_blocks = Append(@, CodeBlockEntry(cfg, m)),
             ![i].pos = m.next]
       /\ UNCHANGED <<cfg, single, batch, server>>

\* re.sub of call i finds no further match; _extract_code_blocks returns
EndExtract(i) ==
    LET f == calls[i]
    IN /\ f.pc = "extracting"
       /\ NextFence(f.text, f.pos) = 0
       /\ calls' = [calls EXCEPT
             ![i].text_with_placeholders = @ \o Drop(f.text, f.pos),
             ![i].pos = Len(f.text) + 1,
             ![i].pc = "extracted"]
       /\ UNCHANGED <<cfg, single, batch, server>>

\* step 2 of call i
CallParse(i) ==
    /\ calls[i].pc = "extracted"
    /\ calls' = [calls EXCEPT
          ![i].sections = _parse_markdown_structure(cfg, calls[i].text_with_placeholders),
          ![i].pc = "chunking"]
    /\ UNCHANGED <<cfg, single, batch, server>>

\* one iteration of the loop of step 3 of call i
CallChunkSection(i) ==
    LET f == calls[i]
    IN /\ f.pc = "chunking"
       /\ f.sec_done < Len(f.sections)
       /\ calls' = [calls EXCEPT
             ![i].chunks = @ \o _chunk_section(cfg, f.sections[f.sec_done + 1],
                                               f.code_blocks, CallMetadata(i)),
             ![i].sec_done = @ + 1]
       /\ UNCHANGED <<cfg, single, batch, server>>

\* step 4 of call i, and its return
CallRestore(i) ==
    LET f == calls[i]
    IN /\ f.pc = "chunking"
       /\ f.sec_done = Len(f.sections)
       /\ calls' = [calls EXCEPT
             ![i].final_chunks = _restore_code_blocks(f.chunks, f.code_blocks),
             ![i].pc = "done"]
       /\ UNCHANGED <<cfg, single, batch, server>>

NextShared ==
    \E i \in 1..MaxCalls :
       \/ Invoke(i)
       \/ ReplaceBlock(i)
       \/ EndExtract(i)
       \/ CallParse(i)
       \/ CallChunkSection(i)
       \/ CallRestore(i)

SpecShared == InitShared /\ [][NextShared]_vars

-----------------------------------------------------------------------------
(* A third specification, SpecDocuments: one call of split_documents on a  *)
(* list of Documents. Each step is one iteration of its loop, a whole call *)
(* of split_text on the next document.                                     *)

\* number of documents in the caller's list, at most
MaxDocs == 2

DocumentTexts == SharedTexts \cup {SegHeaderA \o SegProse}

\* the lists of at most MaxDocs Documents; the i-th carries the metadata
\* CallMetadata(i)
DocumentLists ==
    {[i \in 1..Len(ts) |-> [page_content |-> ts[i], metadata |-> CallMetadata(i)]] :
        ts \in UNION {[1..n -> DocumentTexts] : n \in 0..MaxDocs}}

\* no single call of split_text under way
NoCall ==
    /\ text = <<>>
    /\ metadata = NoMetadata
    /\ pc = "start"
    /\ text_with_placeholders = <<>>
    /\ code_blocks = <<>>
    /\ sections = <<>>
    /\ sec_done = 0
    /\ chunks = <<>>
    /\ final_chunks = <<>>
    /\ calls = <<>>

\* a prose splitter that hands out the mapping it was given instead of a copy
SharesMetadata_NoCopy == TRUE

\* whether the Documents that base_splitter.split_documents returns hold the
\* very mapping of the Document passed in (line 224): create_documents gives
\* each of them a copy.deepcopy of it
SharesMetadata == FALSE

\* the keys text_doc.metadata.update writes (lines 229-234)
UpdatedKeys == {"section_title", "section_level", "chunk_type", "has_code"}

\* the caller's mapping md after split_text(t, md) has returned. The writes of
\* split_text to a metadata mapping are text_doc.metadata.update (line 229),
\* on the mapping of a Document returned by the prose splitter; the chunks of
\* code are built on new mappings ({**parent_metadata, ...}, lines 252, 321,
\* 356) and _restore_code_blocks passes the chunk's mapping on (line 391).
CallerMetadataAfter(c, t, md) ==
    LET result == split_text(c, t, md)
        texts  == SelectSeq(result, LAMBDA ch : ch.metadata.chunk_type = "text")
    IN IF SharesMetadata /\ Len(texts) > 0
       THEN [k \in UpdatedKeys |-> texts[Len(texts)].metadata[k]] @@ md
       ELSE md

InitDocuments ==
    /\ cfg \in {DefaultConfig, SmallConfig}
    /\ documents \in DocumentLists
    /\ docs_done = 0
    /\ all_chunks = <<>>
    /\ dpc = "loop"
    /\ NoCall
    /\ NoServer

\* one iteration of "for doc in documents": split_text on the next document
\* and all_chunks.extend
SplitDocument ==
    /\ dpc = "loop"
    /\ docs_done < Len(documents)
    /\ LET doc == documents[docs_done + 1]
       IN /\ all_chunks' = all_chunks \o split_text(cfg, doc.page_content, doc.metadata)
          /\ documents' = [documents EXCEPT ![docs_done + 1].metadata =
                              CallerMetadataAfter(cfg, doc.page_content, doc.metadata)]
    /\ docs_done' = docs_done + 1
    /\ UNCHANGED <<cfg, single, calls, dpc, server>>

\* the loop has ended: return all_chunks
ReturnChunks ==
    /\ dpc = "loop"
    /\ docs_done = Len(documents)
    /\ dpc' = "returned"
    /\ UNCHANGED <<cfg, single, calls, documents, docs_done, all_chunks, server>>

NextDocuments == SplitDocument \/ ReturnChunks

SpecDocuments == InitDocuments /\ [][NextDocuments]_vars

-----------------------------------------------------------------------------
(* A fourth specification, SpecServer: the API server of main.py. The      *)
(* handlers are coroutines without an await, so each request is handled in *)
(* one step; log records what was handled and how it was answered.         *)

\* number of POST /ask requests, at most
MaxRequests == 3

\* session ids of the requests; default_session is the default of Question.session_id
SessionIds == {"default_session", "s1"}

\* questions of the requests (Question.question has 5 to 500 characters)
Questions == {"what is a chain", "what is a retriever"}

\* what rag_chain.invoke does: it raises, or it returns a result with an
\* answer and the source documents
ChainOutcomes ==
    {[raises |-> TRUE, answer |-> "", source_documents |-> <<>>]}
    \cup
    {[raises |-> FALSE, answer |-> a,
      source_documents |-> <<[url |-> "https://docs/a", title |-> "A"]>>] :
        a \in {"a chain is", "a retriever is"}}

\* the LangChain messages of the history kept for session_id in the dictionary H
get_session_history(H, session_id) ==
    LET history_dicts == IF session_id \in DOMAIN H THEN H[session_id] ELSE <<>>
    IN [k \in 1..(2 * Len(history_dicts)) |->
           IF k % 2 = 1
           THEN [type |-> "human", content |-> history_dicts[(k + 1) \div 2].human]
           ELSE [type |-> "ai", content |-> history_dicts[k \div 2].ai]]

\* the dictionary H after add_to_session_history(session_id, human_question, ai_answer)
add_to_session_history(H, session_id, human_question, ai_answer) ==
    LET created == IF session_id \in DOMAIN H THEN H ELSE (session_id :> <<>>) @@ H
    IN [created EXCEPT ![session_id] =
           Append(@, [human |-> human_question, ai |-> ai_answer])]

\* an entry of log: the request, whether the chain was invoked, and the response
Handled(op, session_id, question, chain, status, answer, sources, chat_history) ==
    [op |-> op, session_id |-> session_id, question |-> question, chain |-> chain,
     status |-> status, answer |-> answer, sources |-> sources,
     chat_history |-> chat_history]

AsksHandled == Len(SelectSeq(log, LAMBDA e : e.op = "ask"))

\* the module is loaded: an empty dictionary and no chain
InitServer ==
    /\ SESSION_HISTORY = <<>>
    /\ rag_chain = "None"
    /\ vectorstore = "None"
    /\ log = <<>>
    /\ cfg = DefaultConfig
    /\ NoCall
    /\ NoBatch

\* startup_event: the vector store cannot be loaded (503 or 500), or the chain
\* cannot be built (500), or both are loaded
Startup ==
    /\ \A k \in 1..Len(log) : log[k].op # "startup"
    /\ \E outcome \in {"ConnectionError", "Exception", "chain fails", "ok"} :
          /\ vectorstore' = IF outcome \in {"ConnectionError", "Exception"}
                            THEN vectorstore ELSE "Chroma"
          /\ rag_chain' = IF outcome = "ok" THEN "chain" ELSE rag_chain
          /\ log' = Append(log, Handled("startup", "", "", "not invoked",
                               CASE outcome = "ConnectionError" -> 503
                                 [] outcome = "ok" -> 200
                                 [] OTHER -> 500,
                               "", <<>>, <<>>))
    /\ UNCHANGED <<SESSION_HISTORY, cfg, single, calls, batch>>

\* POST /ask, had the question been recorded before the chain is invoked
Ask_RecordFirst(session_id, question, outcome) ==
    /\ AsksHandled < MaxRequests
    /\ IF rag_chain = "None"
       THEN /\ log' = Append(log, Handled("ask", session_id, question, "not invoked",
                                          503, "", <<>>, <<>>))
            /\ UNCHANGED SESSION_HISTORY
       ELSE LET chat_history == get_session_history(SESSION_HISTORY, session_id)
            IN /\ SESSION_HISTORY' = add_to_session_history(SESSION_HISTORY, session_id,
                                                            question, outcome.answer)
               /\ log' = Append(log,
                            IF outcome.raises
                            THEN Handled("ask", session_id, question, "raised",
                                         500, "", <<>>, chat_history)
                            ELSE Handled("ask", session_id, question, "returned",
                                         200, outcome.answer,
                                                  outcome.source_documents, chat_history))
    /\ UNCHANGED <<rag_chain, vectorstore, cfg, single, calls, batch>>

\* POST /ask: ask_question, from the check of rag_chain to the response
Ask(session_id, question, outcome) ==
    /\ AsksHandled < MaxRequests
    /\ IF rag_chain = "None"
       THEN /\ log' = Append(log, Handled("ask", session_id, question, "not invoked",
                                          503, "", <<>>, <<>>))
            /\ UNCHANGED SESSION_HISTORY
       ELSE LET chat_history == get_session_history(SESSION_HISTORY, session_id)
            IN IF outcome.raises
               THEN /\ log' = Append(log, Handled("ask", session_id, question, "raised",
                                                  500, "", <<>>, chat_history))
                    /\ UNCHANGED SESSION_HISTORY
               ELSE /\ SESSION_HISTORY' = add_to_session_history(SESSION_HISTORY,
                                              session_id, question, outcome.answer)
                    /\ log' = Append(log, Handled("ask", session_id, question, "returned",
                                                  200, outcome.answer,
                                                  outcome.source_documents, chat_history))
    /\ UNCHANGED <<rag_chain, vectorstore, cfg, single, calls, batch>>

NextServer ==
    \/ Startup
    \/ \E session_id \in SessionIds, question \in Questions, outcome \in ChainOutcomes :
          Ask(session_id, question, outcome)

SpecServer == InitServer /\ [][NextServer]_vars

-----------------------------------------------------------------------------
(* Vocabulary of the properties                                            *)

Returned == pc = "done"

\* the call is over: split_text has returned or an exception has left it
Ended == pc \in {"done", "raised"}

\* the indices of the returned chunks whose chunk_type is in types
ChunksOfType(types) ==
    {k \in 1..Len(final_chunks) : final_chunks[k].metadata.chunk_type \in types}

\* the returned chunks with has_code = true, in emission order
CodeChunkSeq == SelectSeq(final_chunks, LAMBDA ch : ch.metadata.has_code)

\* the number of positions of s where p occurs
Occurrences(s, p) == Cardinality({i \in 1..Len(s) : StartsWithAt(s, i, p)})

\* s without its whitespace characters
NonWs(s) == SelectSeq(s, LAMBDA ch : ch \notin Whitespace)

\* the text holds exactly one fenced code block and no other fence or
\* placeholder-like text: one opening and one closing fence, extracted as block 0
OneBlockDocument ==
    /\ Occurrences(text, Fence) = 2
    /\ Occurrences(text, PlaceholderPrefix) = 0
    /\ Len(code_blocks) = 1

\* the fenced block of a one-block document as it is written in the text,
\* from the first backquote of the opening fence to the last of the closing fence
OriginalBlock ==
    LET open  == FindFrom(text, 1, Fence)
        close == FindFrom(text, open + 3, Fence)
    IN SubSeq(text, open, close + 2)

\* all three preserve_* flags have their default value
DefaultFlags ==
    /\ cfg.preserve_code_blocks
    /\ cfg.preserve_functions
    /\ cfg.preserve_markdown_structure

-----------------------------------------------------------------------------
(* C1. Code-block atomicity: when the document holds exactly one fenced    *)
(* code block and its body is no longer than code_block_max_size, exactly  *)
(* one returned chunk has chunk_type = code and its content is the fenced  *)
(* block as written in the document, character for character.             *)

C1_CodeBlockAtomicity ==
    (/\ Returned
     /\ OneBlockDocument
     /\ Len(code_blocks[1].content) <= cfg.code_block_max_size)
    => /\ Cardinality(ChunksOfType({"code"})) = 1
       /\ \A k \in ChunksOfType({"code"}) : final_chunks[k].page_content = OriginalBlock

-----------------------------------------------------------------------------
(* C2. Concrete scenario: with the default configuration the text          *)
(* ScenarioText yields exactly two chunks, in this order: the text chunk   *)
(* '# Intro\nHello world.' of section 'Intro', level 1, and the code chunk *)
(* whose content is the fenced block, no extra character, with language    *)
(* python, has_code = true and functions = ['f'].                          *)

\* '# Intro\nHello world.'
ScenarioChunk1 ==
    <<"#", SP, "I", "n", "t", "r", "o", NL, "H", "e", "l", "l", "o", SP, "w", "o", "r",
    "l", "d", ".">>

\* '```python\ndef f():\n    return 1\n```'
ScenarioChunk2 ==
    <<BT, BT, BT, "p", "y", "t", "h", "o", "n", NL, "d", "e", "f", SP, "f", "(", ")",
    ":", NL, SP, SP, SP, SP, "r", "e", "t", "u", "r", "n", SP, "1", NL, BT, BT, BT>>

C2_ConcreteScenario ==
    (Returned /\ text = ScenarioText /\ cfg = DefaultConfig)
    => /\ Len(final_chunks) = 2
       /\ final_chunks[1].page_content = ScenarioChunk1
       /\ final_chunks[1].metadata.chunk_type = "text"
       /\ final_chunks[1].metadata.section_title = <<"I", "n", "t", "r", "o">>
       /\ final_chunks[1].metadata.section_level = 1
       /\ final_chunks[2].page_content = ScenarioChunk2
       /\ final_chunks[2].metadata.chunk_type = "code"
       /\ final_chunks[2].metadata.language = LangPython
       /\ final_chunks[2].metadata.has_code = TRUE
       /\ final_chunks[2].metadata.functions = << <<"f">> >>

-----------------------------------------------------------------------------
(* C3. Large-block function splitting: when the only block of the document *)
(* is tagged python, is longer than code_block_max_size, parses, and holds *)
(* two top-level function definitions, exactly two returned chunks have    *)
(* chunk_type = code_function, and each of the two functions has a chunk   *)
(* holding its complete source lines and carrying its name.                *)

\* the lines of the block body that start a top-level function definition
TopLevelDefLines(code) ==
    LET lines == Split(code, <<NL>>)
    IN {k \in 1..Len(lines) : StartsWithAt(lines[k], 1, KwDef \o <<SP>>)}

\* the source lines of the top-level definition that starts at line k: up to
\* the last following line that is indented
RECURSIVE IndentedEnd(_, _)
IndentedEnd(lines, k) ==
    IF k + 1 <= Len(lines) /\ StartsWithAt(lines[k + 1], 1, <<SP>>)
    THEN IndentedEnd(lines, k + 1) ELSE k

DefSource(code, k) ==
    LET lines == Split(code, <<NL>>)
    IN Join(SubSeq(lines, k, IndentedEnd(lines, k)), <<NL>>)

\* the name written after 'def ' on a line
DefName(line) == SubSeq(line, 5, 4 + WordRun(line, 5))

LargePythonBlock ==
    /\ OneBlockDocument
    /\ DefaultFlags
    /\ code_blocks[1].language = LangPython
    /\ Len(code_blocks[1].content) > cfg.code_block_max_size

C3_LargeBlockFunctionSplitting ==
    (/\ Returned
     /\ LargePythonBlock
     /\ Parses(code_blocks[1].content)
     /\ Cardinality(TopLevelDefLines(code_blocks[1].content)) = 2)
    => /\ Cardinality(ChunksOfType({"code_function"})) = 2
       /\ \A k \in TopLevelDefLines(code_blocks[1].content) :
             \E j \in ChunksOfType({"code_function"}) :
                /\ Contains(final_chunks[j].page_content,
                            DefSource(code_blocks[1].content, k))
                /\ final_chunks[j].metadata.function_name
                      = DefName(Split(code_blocks[1].content, <<NL>>)[k])

-----------------------------------------------------------------------------
(* C4. Fallback on invalid syntax: when the only block of the document is  *)
(* tagged python, is longer than code_block_max_size and does not parse,   *)
(* no exception leaves split_text and the block is emitted as code_partial *)
(* chunks only, chunk j holding the next max(10, chunk_size // 40) lines   *)
(* of the block (37 when chunk_size = 1500), the last one possibly fewer;  *)
(* no code_function or code_class chunk is emitted.                        *)

\* the lines between the opening and the closing fence line of a chunk content
InnerLines(content) ==
    LET ls == Split(content, <<NL>>)
    IN SubSeq(ls, 2, Len(ls) - 1)

C4_GroupSize == Max(10, cfg.chunk_size \div 40)

C4_FallbackOnInvalidSyntax ==
    (/\ Ended
     /\ LargePythonBlock
     /\ ~Parses(code_blocks[1].content))
    => LET lines == Split(code_blocks[1].content, <<NL>>)
           k     == C4_GroupSize
           n     == (Len(lines) + k - 1) \div k
       IN /\ Returned
          /\ cfg.chunk_size = 1500 => k = 37
          /\ Len(CodeChunkSeq) = n
          /\ ChunksOfType({"code_function", "code_class", "code"}) = {}
          /\ \A j \in 1..n :
                /\ CodeChunkSeq[j].metadata.chunk_type = "code_partial"
                /\ InnerLines(CodeChunkSeq[j].page_content)
                      = SubSeq(lines, (j - 1) * k + 1, Min(j * k, Len(lines)))
                /\ j < n => Len(InnerLines(CodeChunkSeq[j].page_content)) = k

\* an unparseable block of 38 lines was split with chunk_size = 1500 into 37 + 1 lines
C4_Witness ==
    /\ Returned
    /\ LargePythonBlock
    /\ ~Parses(code_blocks[1].content)
    /\ cfg.chunk_size = 1500
    /\ Len(CodeChunkSeq) = 2
    /\ Len(InnerLines(CodeChunkSeq[1].page_content)) = 37

-----------------------------------------------------------------------------
(* C5. Section tagging: in a document with the header line '# A' and later *)
(* the header line '## B', every chunk made of content at or after '# A'   *)
(* and before '## B' has section_title 'A' and section_level 1, and every  *)
(* chunk made of content at or after '## B' has section_title 'B' and      *)
(* section_level 2.  In SectionedTexts the content under A is the header   *)
(* and text written with x, the content under B the header and text        *)
(* written with z.                                                         *)

HasAnyOf(content, marks) == \E i \in 1..Len(content) : content[i] \in marks

C5_SectionTagging ==
    (Returned /\ text \in SectionedTexts /\ cfg.preserve_markdown_structure)
    => \A k \in 1..Len(final_chunks) :
          /\ HasAnyOf(final_chunks[k].page_content, {"A", "x"})
                => /\ final_chunks[k].metadata.section_title = <<"A">>
                   /\ final_chunks[k].metadata.section_level = 1
          /\ HasAnyOf(final_chunks[k].page_content, {"B", "z"})
                => /\ final_chunks[k].metadata.section_title = <<"B">>
                   /\ final_chunks[k].metadata.section_level = 2

\* a two-section document returned a code chunk of section A and text and code of section B
C5_Witness ==
    /\ Returned
    /\ text \in SectionedTexts
    /\ cfg.preserve_markdown_structure
    /\ \E i, j, k \in 1..Len(final_chunks) :
          /\ i < j /\ j < k
          /\ final_chunks[i].metadata.has_code
          /\ HasAnyOf(final_chunks[i].page_content, {"x"})
          /\ final_chunks[i].metadata.section_title = <<"A">>
          /\ ~final_chunks[j].metadata.has_code
          /\ HasAnyOf(final_chunks[j].page_content, {"B"})
          /\ final_chunks[k].metadata.has_code
          /\ HasAnyOf(final_chunks[k].page_content, {"z"})
          /\ final_chunks[k].metadata.section_level = 2

-----------------------------------------------------------------------------
(* C6. Metadata inheritance: every key of the caller's metadata is present *)
(* in the metadata of every returned chunk with the caller's value, also   *)
(* when the key is one the chunker writes itself.                          *)

C6_MetadataInheritance ==
    Returned
    => \A k \in 1..Len(final_chunks) :
          \A key \in DOMAIN metadata :
             /\ key \in DOMAIN final_chunks[k].metadata
             /\ final_chunks[k].metadata[key] = metadata[key]

-----------------------------------------------------------------------------
(* C7. Round trip for prose: when the document has no code fence, the      *)
(* contents of the returned chunks, taken in emission order with the       *)
(* overlap between adjacent chunks removed, give the document back up to   *)
(* whitespace: no non-whitespace character is lost, duplicated or          *)
(* reordered.  The overlap removed between two adjacent chunks is a suffix *)
(* of the first that is a prefix of the second, of at most chunk_overlap   *)
(* characters.                                                             *)

\* the returned contents without whitespace, in emission order
ChunkTexts == [k \in 1..Len(final_chunks) |-> NonWs(final_chunks[k].page_content)]

\* the positions of t at which the first k texts of cs can end when they are
\* laid over t from its start, each starting inside or right after the previous
\* one with an overlap of at most maxov characters
RECURSIVE OverlayEnds(_, _, _, _)
OverlayEnds(t, cs, k, maxov) ==
    IF k = 0 THEN {0}
    ELSE LET prev == OverlayEnds(t, cs, k - 1, maxov)
             plen == IF k = 1 THEN 0 ELSE Len(cs[k - 1])
         IN {e - o + Len(cs[k]) :
                <<e, o>> \in {<<e, o>> \in prev \X (0..maxov) :
                                 /\ o <= Len(cs[k])
                                 /\ o <= plen
                                 /\ StartsWithAt(t, e - o + 1, cs[k])}}

\* cs, with overlaps removed, is exactly t
Reassembles(t, cs, maxov) == Len(t) \in OverlayEnds(t, cs, Len(cs), maxov)

C7_ProseRoundTrip ==
    (Returned /\ ~Contains(text, Fence))
    => Reassembles(NonWs(text), ChunkTexts, cfg.chunk_overlap)

\* a prose document came back in three chunks or more, two of them overlapping
C7_Witness ==
    /\ Returned
    /\ ~Contains(text, Fence)
    /\ Len(final_chunks) >= 3
    /\ TotalLen(ChunkTexts) > Len(NonWs(text))
    /\ Reassembles(NonWs(text), ChunkTexts, cfg.chunk_overlap)

-----------------------------------------------------------------------------
(* C8. Reconstruction with code: for any document the contents of the      *)
(* returned chunks, in emission order and with overlaps removed, give the  *)
(* document back up to whitespace, nothing added; and every line of a      *)
(* python block longer than code_block_max_size is a line of some chunk.   *)

\* the non-blank lines of the block body
BlockLines(code) == SelectSeq(Split(code, <<NL>>), LAMBDA l : Len(NonWs(l)) > 0)

\* line is one of the lines of some returned chunk
InSomeChunk(line) ==
    \E k \in 1..Len(final_chunks) :
       \E i \in 1..Len(Split(final_chunks[k].page_content, <<NL>>)) :
          Split(final_chunks[k].page_content, <<NL>>)[i] = line

C8_ReconstructionWithCode ==
    Returned
    => /\ Reassembles(NonWs(text), ChunkTexts, cfg.chunk_overlap)
       /\ LargePythonBlock
             => \A i \in 1..Len(BlockLines(code_blocks[1].content)) :
                   InSomeChunk(BlockLines(code_blocks[1].content)[i])

-----------------------------------------------------------------------------
(* C9. Empty input: for the empty text and for a text of whitespace only,  *)
(* split_text returns no chunk and raises nothing.                         *)

C9_EmptyInput ==
    (Ended /\ NonWs(text) = <<>>)
    => /\ Returned
       /\ final_chunks = <<>>

\* a text of whitespace only was split into nothing
C9_Witness ==
    /\ Returned
    /\ Len(text) >= 2
    /\ NonWs(text) = <<>>
    /\ Len(sections) >= 1
    /\ final_chunks = <<>>

-----------------------------------------------------------------------------
(* C10. Non-empty when possible: for a text with at least one character    *)
(* that is not whitespace, split_text raises nothing and returns at least  *)
(* one chunk, and the fenced block of a one-block document contributes at  *)
(* least one chunk, also when it is longer than code_block_max_size and    *)
(* parses as Python without holding a function or class definition.        *)

C10_NonEmptyWhenPossible ==
    (Ended /\ NonWs(text) # <<>>)
    => /\ Returned
       /\ Len(final_chunks) >= 1
       /\ OneBlockDocument => Len(CodeChunkSeq) >= 1

-----------------------------------------------------------------------------
(* C11. Header-less document: when no line of the input text matches the   *)
(* header pattern, _parse_markdown_structure returns a single section with *)
(* level 0 and title 'Content' that holds all the lines, and every         *)
(* returned chunk has section_title 'Content' and section_level 0.         *)

\* no line of s matches the header pattern
HeaderLess(s) ==
    \A k \in 1..Len(Split(s, <<NL>>)) : ~HeaderMatch(Split(s, <<NL>>)[k]).ok

C11_HeaderlessDocument ==
    (Returned /\ HeaderLess(text))
    => /\ sections = << [level   |-> 0,
                         title   |-> TitleContent,
                         content |-> Split(text_with_placeholders, <<NL>>)] >>
       /\ \A k \in 1..Len(final_chunks) :
             /\ final_chunks[k].metadata.section_title = TitleContent
             /\ final_chunks[k].metadata.section_level = 0

-----------------------------------------------------------------------------
(* C12. Preamble section: with preserve_markdown_structure set, when the   *)
(* text handed to _parse_markdown_structure has a header line, the lines   *)
(* before the first header line form the first section, with level 0 and   *)
(* title 'Introduction', and no other section has level 0 or that title;   *)
(* when the first line is itself a header line, no section has level 0 or  *)
(* the title 'Introduction'.                                               *)

\* the number of the first line of lines that matches the header pattern, 0 if none
FirstHeader(lines) ==
    IF \E k \in 1..Len(lines) : HeaderMatch(lines[k]).ok
    THEN CHOOSE k \in 1..Len(lines) :
            /\ HeaderMatch(lines[k]).ok
            /\ \A j \in 1..(k - 1) : ~HeaderMatch(lines[j]).ok
    ELSE 0

\* _parse_markdown_structure has returned
Parsed == pc \in {"chunking", "raised", "done"}

\* the sections that have level 0 or the title 'Introduction'
ImplicitSections ==
    {k \in 1..Len(sections) :
        sections[k].level = 0 \/ sections[k].title = TitleIntroduction}

C12_PreambleSection ==
    LET lines == Split(text_with_placeholders, <<NL>>)
        h     == FirstHeader(lines)
    IN (Parsed /\ cfg.preserve_markdown_structure /\ h # 0)
       => IF h = 1
          THEN ImplicitSections = {}
          ELSE /\ ImplicitSections = {1}
               /\ sections[1] = [level   |-> 0,
                                 title   |-> TitleIntroduction,
                                 content |-> SubSeq(lines, 1, h - 1)]

\* two lines of preamble before the first header became the section 'Introduction'
C12_Witness ==
    LET lines == Split(text_with_placeholders, <<NL>>)
    IN /\ Parsed
       /\ cfg.preserve_markdown_structure
       /\ FirstHeader(lines) = 3
       /\ Len(sections) >= 2
       /\ sections[1].title = TitleIntroduction
       /\ Len(sections[1].content) = 2
       /\ sections[2].level >= 1

-----------------------------------------------------------------------------
(* C13. Size threshold: with default flags, in a document without literal  *)
(* placeholder text, every fenced block whose body is at most              *)
(* code_block_max_size characters long (exactly that long included) yields *)
(* exactly one chunk of chunk_type code, holding the body and tagged with  *)
(* the block's language, has_code = true and the function and class names  *)
(* found in the body; a block whose body is longer yields no chunk of      *)
(* chunk_type code: the chunks of such a block come from the large-block   *)
(* splitter (code_function, code_class, code_partial).                     *)

\* the document holds no text of placeholder form
GenuineDocument == Occurrences(text, PlaceholderPrefix) = 0

\* the chunks of chunk_type code that stand for block b (entry b of code_blocks)
CodeChunksOfBlock(b) ==
    {k \in 1..Len(chunks) :
        /\ chunks[k].page_content = BlockId(b - 1)
        /\ chunks[k].metadata.chunk_type = "code"}

SmallBlocks ==
    {b \in 1..Len(code_blocks) : Len(code_blocks[b].content) <= cfg.code_block_max_size}

C13_SizeThreshold ==
    (Returned /\ DefaultFlags /\ GenuineDocument)
    => /\ \A b \in SmallBlocks :
             /\ Cardinality(CodeChunksOfBlock(b)) = 1
             /\ \A k \in CodeChunksOfBlock(b) :
                   /\ Contains(final_chunks[k].page_content, code_blocks[b].content)
                   /\ final_chunks[k].metadata.language = code_blocks[b].language
                   /\ final_chunks[k].metadata.has_code = TRUE
                   /\ final_chunks[k].metadata.functions
                         = _extract_function_names(code_blocks[b].content,
                                                   code_blocks[b].language)
                   /\ final_chunks[k].metadata.classes
                         = _extract_class_names(code_blocks[b].content,
                                                code_blocks[b].language)
       /\ \A b \in (1..Len(code_blocks)) \ SmallBlocks : CodeChunksOfBlock(b) = {}
       /\ Cardinality(ChunksOfType({"code"})) = Cardinality(SmallBlocks)
       /\ Len(CodeChunkSeq) >= Cardinality(SmallBlocks)
       /\ (SmallBlocks = {})
             => ChunksOfType({"code_function", "code_class", "code_partial"})
                   = {k \in 1..Len(final_chunks) : final_chunks[k].metadata.has_code}

\* a block whose body is exactly code_block_max_size long came back as one
\* code chunk naming its function, next to a shorter block
C13_Witness ==
    /\ Returned
    /\ DefaultFlags
    /\ GenuineDocument
    /\ Len(code_blocks) = 2
    /\ Len(code_blocks[2].content) = cfg.code_block_max_size
    /\ Cardinality(CodeChunksOfBlock(2)) = 1
    /\ \A k \in CodeChunksOfBlock(2) : final_chunks[k].metadata.functions = << <<"f">> >>

-----------------------------------------------------------------------------
(* C14. Missing placeholder: when the text handed to chunking holds a      *)
(* token of the form __CODE_BLOCK_n__ that has no entry in the code-block  *)
(* mapping, split_text raises nothing and no returned chunk holds such a   *)
(* token (it has been replaced by the empty string).                       *)

\* the positions of s where a token of placeholder form without entry in blocks starts
DanglingTokens(s, blocks) ==
    {i \in 1..Len(s) :
        /\ PlaceholderLenAt(s, i) > 0
        /\ BlockIndex(blocks, SubSeq(s, i, i + PlaceholderLenAt(s, i) - 1)) = 0}

C14_MissingPlaceholder ==
    (Ended /\ DanglingTokens(text_with_placeholders, code_blocks) # {})
    => /\ Returned
       /\ \A k \in 1..Len(final_chunks) :
             DanglingTokens(final_chunks[k].page_content, code_blocks) = {}

-----------------------------------------------------------------------------
(* C15. Unterminated fence: when the document holds exactly one code fence *)
(* (an opening fence line and no closing delimiter), split_text raises     *)
(* nothing, no code block is extracted, the text is handed on unchanged,   *)
(* every returned chunk has chunk_type text and has_code = false, and the  *)
(* chunks give the document back, fence included, up to whitespace.        *)

UnterminatedFence == Occurrences(text, Fence) = 1

C15_UnterminatedFence ==
    (Ended /\ UnterminatedFence)
    => /\ Returned
       /\ code_blocks = <<>>
       /\ text_with_placeholders = text
       /\ \A k \in 1..Len(final_chunks) :
             /\ final_chunks[k].metadata.chunk_type = "text"
             /\ final_chunks[k].metadata.has_code = FALSE
       /\ Reassembles(NonWs(text), ChunkTexts, cfg.chunk_overlap)

\* a document with prose after its only fence came back as text chunks, the
\* fence in one of them
C15_Witness ==
    /\ Returned
    /\ UnterminatedFence
    /\ NonWs(Drop(text, FindFrom(text, 1, Fence) + 3)) # <<>>
    /\ \E k \in 1..Len(final_chunks) :
          /\ Contains(final_chunks[k].page_content, Fence)
          /\ final_chunks[k].metadata.chunk_type = "text"

-----------------------------------------------------------------------------
(* C16. Isolation of invocations: for every interleaving of the steps of   *)
(* the calls that run on one instance, the placeholder ids of each call    *)
(* are numbered from 0 in the order of its own matches, its mapping has    *)
(* one entry per id, and the call returns exactly the chunks split_text    *)
(* returns for its text and metadata when it runs on its own.              *)

C16_IsolationOfInvocations ==
    \A i \in 1..Len(calls) :
       /\ calls[i].code_block_counter = Len(calls[i].code_blocks)
       /\ \A k \in 1..Len(calls[i].block_ids) : calls[i].block_ids[k] = BlockId(k - 1)
       /\ calls[i].pc \in {"extracted", "chunking", "done"}
             => /\ calls[i].text_with_placeholders
                      = _extract_code_blocks(cfg, calls[i].text).text
                /\ calls[i].code_blocks = _extract_code_blocks(cfg, calls[i].text).blocks
       /\ calls[i].pc = "done"
             => calls[i].final_chunks = split_text(cfg, calls[i].text, CallMetadata(i))

\* two calls on texts with two blocks each are both between their first and
\* their second match
C16_Witness ==
    /\ Len(calls) >= 2
    /\ \A i \in 1..2 :
          /\ calls[i].pc = "extracting"
          /\ calls[i].code_block_counter = 1
          /\ NextFence(calls[i].text, calls[i].pos) # 0

-----------------------------------------------------------------------------
(* C17. Document order: the returned chunks follow the order of the source *)
(* positions they were made from.  In a document of sections made of prose *)
(* and code blocks, the chunk contents laid over the document in emission  *)
(* order cover it from start to end (sections in order, prose before a     *)
(* block, the block, prose after it); and the chunks made from the         *)
(* definitions of one large python block are emitted in the order in which *)
(* the definitions start in the block.                                     *)

\* the names of the definitions of code, nested ones included, in the order
\* of their header lines
SourceOrderNames(code) ==
    LET hs == SelectSeq(LogicalLines(Split(code, <<NL>>)), IsHeader)
    IN [k \in 1..Len(hs) |-> hs[k].name]

\* the names carried by the returned code_function and code_class chunks, in
\* emission order
EmittedNames ==
    LET ds == SelectSeq(final_chunks,
                        LAMBDA ch : ch.metadata.chunk_type \in {"code_function", "code_class"})
    IN [k \in 1..Len(ds) |->
           IF ds[k].metadata.chunk_type = "code_function"
           THEN ds[k].metadata.function_name
           ELSE ds[k].metadata.class_name]

\* a is b with some elements left out
RECURSIVE IsSubsequence(_, _)
IsSubsequence(a, b) ==
    IF Len(a) = 0 THEN TRUE
    ELSE IF Len(b) = 0 THEN FALSE
    ELSE IF a[1] = b[1] THEN IsSubsequence(Tail(a), Tail(b))
    ELSE IsSubsequence(a, Tail(b))

C17_DocumentOrder ==
    Returned
    => /\ text \in SectionedTexts
             => Reassembles(NonWs(text), ChunkTexts, cfg.chunk_overlap)
       /\ (LargePythonBlock /\ Parses(code_blocks[1].content))
             => IsSubsequence(EmittedNames, SourceOrderNames(code_blocks[1].content))

-----------------------------------------------------------------------------
(* C18. Top-level definitions only: when the only block of the document is *)
(* tagged python, is longer than code_block_max_size and parses, its       *)
(* chunks are exactly one per top-level function or class definition: as   *)
(* many chunks as top-level definitions, each definition's source lines    *)
(* (start line to end line) being the content of as many chunks as there   *)
(* are top-level definitions with that source, with chunk_type             *)
(* code_function or code_class and the definition's name; no chunk is made *)
(* for a nested definition, so the chunks hold no more lines than the      *)
(* top-level definitions have.                                             *)

\* the lines of the block body that start a top-level class definition
TopLevelClassLines(code) ==
    LET lines == Split(code, <<NL>>)
    IN {k \in 1..Len(lines) : StartsWithAt(lines[k], 1, KwClass \o <<SP>>)}

\* the name written after 'class ' on a line
ClassName(line) == SubSeq(line, 7, 6 + WordRun(line, 7))

\* the number of returned code chunks with the given content, type and names
ChunksLike(content, type, fname, cname) ==
    Cardinality({j \in 1..Len(CodeChunkSeq) :
                    /\ CodeChunkSeq[j].page_content = content
                    /\ CodeChunkSeq[j].metadata.chunk_type = type
                    /\ CodeChunkSeq[j].metadata.function_name = fname
                    /\ CodeChunkSeq[j].metadata.class_name = cname})

\* the number of lines between the fences of the returned code chunks
RECURSIVE EmittedLineCount(_)
EmittedLineCount(j) ==
    IF j = 0 THEN 0
    ELSE Len(InnerLines(CodeChunkSeq[j].page_content)) + EmittedLineCount(j - 1)

C18_TopLevelDefinitionsOnly ==
    (Returned /\ LargePythonBlock /\ Parses(code_blocks[1].content))
    => LET code  == code_blocks[1].content
           lines == Split(code, <<NL>>)
           defs  == TopLevelDefLines(code)
           clss  == TopLevelClassLines(code)
       IN /\ Len(CodeChunkSeq) = Cardinality(defs) + Cardinality(clss)
          /\ \A k \in defs :
                ChunksLike(Fenced(LangPython, DefSource(code, k)), "code_function",
                           DefName(lines[k]), NoneValue)
                   = Cardinality({k2 \in defs : DefSource(code, k2) = DefSource(code, k)})
          /\ \A k \in clss :
                ChunksLike(Fenced(LangPython, DefSource(code, k)), "code_class",
                           NoneValue, ClassName(lines[k]))
                   = Cardinality({k2 \in clss : DefSource(code, k2) = DefSource(code, k)})
          /\ EmittedLineCount(Len(CodeChunkSeq)) <= Len(lines)

-----------------------------------------------------------------------------
(* C19. Line-count splitting is a partition: when the only block of the    *)
(* document is longer than code_block_max_size and is split by line count  *)
(* (it is not tagged python, or preserve_functions is off, or it does not  *)
(* parse), then with k = max(10, chunk_size // 40) and n the number of     *)
(* lines of the body (the pieces of body.split('\n')), the block yields    *)
(* ceil(n / k) chunks, all code_partial; chunk i (from 0) holds lines      *)
(* i*k .. min((i+1)*k, n) - 1, every chunk but the last holds k lines, and *)
(* the chunks' lines in emission order are the lines of the body.          *)

LineSplitBlock ==
    /\ OneBlockDocument
    /\ cfg.preserve_code_blocks
    /\ Len(code_blocks[1].content) > cfg.code_block_max_size
    /\ \/ code_blocks[1].language # LangPython
       \/ ~cfg.preserve_functions
       \/ ~Parses(code_blocks[1].content)

\* the lines between the fences of the first j returned code chunks, in emission order
RECURSIVE EmittedLines(_)
EmittedLines(j) ==
    IF j = 0 THEN <<>>
    ELSE EmittedLines(j - 1) \o InnerLines(CodeChunkSeq[j].page_content)

C19_LineCountPartition ==
    (Returned /\ LineSplitBlock)
    => LET lines == Split(code_blocks[1].content, <<NL>>)
           n     == Len(lines)
           k     == Max(10, cfg.chunk_size \div 40)
           cnt   == (n + k - 1) \div k
       IN /\ Len(CodeChunkSeq) = cnt
          /\ Cardinality(ChunksOfType({"code_partial"})) = cnt
          /\ ChunksOfType({"code", "code_function", "code_class"}) = {}
          /\ \A i \in 0..(cnt - 1) :
                /\ InnerLines(CodeChunkSeq[i + 1].page_content)
                      = [x \in 1..(Min((i + 1) * k, n) - i * k) |-> lines[i * k + x]]
                /\ (i + 1 < cnt) => Len(InnerLines(CodeChunkSeq[i + 1].page_content)) = k
          /\ EmittedLines(Len(CodeChunkSeq)) = lines

\* a block tagged js of 28 lines (27 and the empty piece after the last
\* newline) was split into groups of 10, 10 and 8 lines
C19_Witness ==
    /\ Returned
    /\ LineSplitBlock
    /\ code_blocks[1].language = LangOther
    /\ Len(Split(code_blocks[1].content, <<NL>>)) = 28
    /\ Len(CodeChunkSeq) = 3
    /\ Len(InnerLines(CodeChunkSeq[2].page_content)) = 10
    /\ Len(InnerLines(CodeChunkSeq[3].page_content)) = 8

-----------------------------------------------------------------------------
(* C20. Non-Python large blocks: when the only block of the document is    *)
(* longer than code_block_max_size and its language tag is not python (no  *)
(* tag, recorded as plain, included), split_text raises nothing, the block *)
(* yields at least one chunk, and every chunk has chunk_type code_partial  *)
(* and the block's own language tag; none is code_function or code_class,  *)
(* also when the body is valid Python that defines functions and classes.  *)

NonPythonLargeBlock ==
    /\ OneBlockDocument
    /\ cfg.preserve_code_blocks
    /\ Len(code_blocks[1].content) > cfg.code_block_max_size
    /\ code_blocks[1].language # LangPython

C20_NonPythonLargeBlocks ==
    (Ended /\ NonPythonLargeBlock)
    => /\ Returned
       /\ Len(CodeChunkSeq) >= 1
       /\ ChunksOfType({"code_function", "code_class", "code"}) = {}
       /\ \A j \in 1..Len(CodeChunkSeq) :
             /\ CodeChunkSeq[j].metadata.chunk_type = "code_partial"
             /\ CodeChunkSeq[j].metadata.language = code_blocks[1].language
             /\ StartsWithAt(CodeChunkSeq[j].page_content, 1,
                             Fence \o code_blocks[1].language \o <<NL>>)

\* an untagged block whose body is valid Python with a function and a class
\* came back as code_partial chunks tagged plain
C20_Witness ==
    /\ Returned
    /\ NonPythonLargeBlock
    /\ code_blocks[1].language = LangPlain
    /\ Parses(code_blocks[1].content)
    /\ TopLevelDefLines(code_blocks[1].content) # {}
    /\ TopLevelClassLines(code_blocks[1].content) # {}
    /\ Len(CodeChunkSeq) >= 1
    /\ \A j \in 1..Len(CodeChunkSeq) : CodeChunkSeq[j].metadata.chunk_type = "code_partial"

-----------------------------------------------------------------------------
(* C21: header-like lines inside fenced blocks                             *)

\* the fenced blocks of s from position i on, each as <<first, last>> position
RECURSIVE BlockSpans(_, _)
BlockSpans(s, i) ==
    LET open == NextFence(s, i)
    IN IF open = 0 THEN {}
       ELSE {<<open, FenceMatchAt(s, open).next - 1>>}
            \cup BlockSpans(s, FenceMatchAt(s, open).next)

\* the position in s of the first character of its line k
LineStart(s, k) ==
    LET breaks == {i \in 1..Len(s) : s[i] = NL}
    IN IF k = 1 THEN 1
       ELSE 1 + CHOOSE p \in breaks : Cardinality({q \in breaks : q <= p}) = k - 1

\* the lines of s that have the form of a header and do not begin inside a fenced block
OutsideHeaderLines(s) ==
    {k \in 1..Len(Split(s, <<NL>>)) :
        /\ HeaderMatch(Split(s, <<NL>>)[k]).ok
        /\ \A sp \in BlockSpans(s, 1) :
              ~(sp[1] <= LineStart(s, k) /\ LineStart(s, k) <= sp[2])}

\* title and level of the Markdown section that encloses position pos of s
EnclosingTag(s, pos) ==
    LET before == {k \in OutsideHeaderLines(s) : LineStart(s, k) <= pos}
        last   == CHOOSE k \in before : \A j \in before : j <= k
    IN IF before = {} THEN [title |-> TitleIntroduction, level |-> 0]
       ELSE [title |-> HeaderMatch(Split(s, <<NL>>)[last]).title,
             level |-> HeaderMatch(Split(s, <<NL>>)[last]).level]

TagOf(ch) == [title |-> ch.metadata.section_title, level |-> ch.metadata.section_level]

\* C21: a line inside a terminated fenced block that has the form of a header
\* starts no section: there are as many sections as header lines outside the
\* blocks, plus the preamble when the text does not begin with a header; the
\* chunks of the block carry the title and level of the section that encloses
\* the block, and the last chunk those of the last header outside the blocks.
C21_HeadersInsideCode ==
    (Parsed /\ cfg.preserve_markdown_structure) =>
        /\ Len(sections) = Cardinality(OutsideHeaderLines(text))
                           + (IF HeaderMatch(Split(text, <<NL>>)[1]).ok THEN 0 ELSE 1)
        /\ (Returned /\ OneBlockDocument) =>
              /\ \A k \in 1..Len(final_chunks) :
                    final_chunks[k].metadata.has_code =>
                        TagOf(final_chunks[k])
                            = EnclosingTag(text, FindFrom(text, 1, Fence))
              /\ Len(final_chunks) > 0 =>
                    TagOf(final_chunks[Len(final_chunks)]) = EnclosingTag(text, Len(text))

\* the block under '# A' contains a header-like line, '## B' follows the block:
\* two sections, the block's chunk in the first and the last chunk in the second
C21_Witness ==
    /\ Returned
    /\ OneBlockDocument
    /\ \E k \in 1..Len(Split(code_blocks[1].content, <<NL>>)) :
          HeaderMatch(Split(code_blocks[1].content, <<NL>>)[k]).ok
    /\ Len(sections) = 2
    /\ \E k \in ChunksOfType({"code"}) : final_chunks[k].metadata.section_level = 1
    /\ final_chunks[Len(final_chunks)].metadata.section_level = 2

-----------------------------------------------------------------------------
(* C22: placeholder ids                                                    *)

\* the fenced blocks of s in order of appearance, each as <<first, last>> position
RECURSIVE BlockSpanSeq(_, _)
BlockSpanSeq(s, i) ==
    LET open == NextFence(s, i)
    IN IF open = 0 THEN <<>>
       ELSE <<<<open, FenceMatchAt(s, open).next - 1>>>>
            \o BlockSpanSeq(s, FenceMatchAt(s, open).next)

\* s with the token __CODE_BLOCK_(k-1)__ replaced by the source of the k-th
\* block of t, for the blocks from k on
RECURSIVE PutBack(_, _, _)
PutBack(s, t, k) ==
    LET spans == BlockSpanSeq(t, 1)
    IN IF k > Len(spans) THEN s
       ELSE PutBack(ReplaceAll(s, PlaceholderPrefix \o Dec(k - 1) \o PlaceholderSuffix,
                               SubSeq(t, spans[k][1], spans[k][2])),
                    t, k + 1)

Extracted(f) == f.pc \in {"extracted", "chunking", "done"}

\* C22: in every call of _extract_code_blocks, whatever the other calls do, the
\* k-th block matched gets the id __CODE_BLOCK_(k-1)__; when the call returns
\* there is one id and one entry per block of the text, entry k holds what is
\* between the fences of block k, the ids differ from each other, putting the
\* blocks back in place of their ids gives the text, and two calls on the same
\* text return the same text with placeholders and the same entries.
C22_PlaceholderIds ==
    /\ \A i \in 1..Len(calls) :
          LET f == calls[i]
              spans == BlockSpanSeq(f.text, 1)
          IN /\ \A k \in 1..Len(f.block_ids) :
                    f.block_ids[k] = PlaceholderPrefix \o Dec(k - 1) \o PlaceholderSuffix
             /\ \A j, k \in 1..Len(f.block_ids) : j # k => f.block_ids[j] # f.block_ids[k]
             /\ Len(f.block_ids) = Len(f.code_blocks)
             /\ Extracted(f) =>
                   /\ Len(f.code_blocks) = Len(spans)
                   /\ \A k \in 1..Len(spans) :
                         /\ Contains(SubSeq(f.text, spans[k][1], spans[k][2]),
                                     f.code_blocks[k].content)
                         /\ Occurrences(f.text_with_placeholders, f.block_ids[k]) = 1
                   /\ PutBack(f.text_with_placeholders, f.text, 1) = f.text
    /\ \A i, j \in 1..Len(calls) :
          (calls[i].text = calls[j].text /\ Extracted(calls[i]) /\ Extracted(calls[j])) =>
              /\ calls[i].text_with_placeholders = calls[j].text_with_placeholders
              /\ calls[i].block_ids = calls[j].block_ids
              /\ calls[i].code_blocks = calls[j].code_blocks

\* two calls on the same text with two blocks have both returned from the extractor
C22_Witness ==
    /\ Len(calls) >= 2
    /\ calls[1].text = calls[2].text
    /\ \A i \in 1..2 :
          /\ Extracted(calls[i])
          /\ Len(calls[i].block_ids) = 2
          /\ calls[i].block_ids[1] # calls[i].block_ids[2]

-----------------------------------------------------------------------------
(* C23: chunk typing                                                       *)

ChunkTypes == {"text", "code", "code_function", "code_class", "code_partial"}

\* the text of a section as _chunk_section reads it
SectionText(sec) == Join(sec.content, <<NL>>)

\* C23: every returned chunk has one of the five chunk types, whatever keys the
\* caller's metadata holds; has_code is false for text and true for the four
\* code types; title and level of every chunk are those of a section of the
\* document, and a text chunk's characters are found, in order and contiguous
\* up to whitespace, in a section with the chunk's title and level.
C23_ChunkTyping ==
    Returned =>
        \A k \in 1..Len(final_chunks) :
           LET md == final_chunks[k].metadata
           IN /\ md.chunk_type \in ChunkTypes
              /\ md.has_code = (md.chunk_type # "text")
              /\ \E s \in 1..Len(sections) :
                    /\ sections[s].title = md.section_title
                    /\ sections[s].level = md.section_level
                    /\ md.chunk_type = "text" =>
                          Contains(NonWs(SectionText(sections[s])),
                                   NonWs(final_chunks[k].page_content))

\* the caller's metadata has its own chunk_type and has_code, and the result
\* holds text chunks and code_function chunks, in two sections
C23_Witness ==
    /\ Returned
    /\ metadata = ClashingMetadata
    /\ ChunksOfType({"text"}) # {}
    /\ ChunksOfType({"code_function"}) # {}
    /\ \E j, k \in 1..Len(final_chunks) :
          final_chunks[j].metadata.section_title # final_chunks[k].metadata.section_title

-----------------------------------------------------------------------------
(* C24: size of prose chunks                                               *)

\* a document that is prose only: no header, no fence, no placeholder token,
\* so that it is one section and one run of prose
PlainProse ==
    /\ HeaderLess(text)
    /\ Occurrences(text, Fence) = 0
    /\ GenuineDocument
    /\ cfg.preserve_markdown_structure

\* the pieces of the prose at the coarsest separator that occurs in it
CoarsestPieces == SplitKeep(Strip(text), PickSeparator(Strip(text), Separators, 1).sep)

\* C24: no returned text chunk is longer than chunk_size (the separator list
\* ends with the empty string, so no indivisible run remains); a prose that
\* fits in chunk_size is returned whole, as one chunk; and when the pieces at
\* the coarsest separator present are all shorter than chunk_size, no finer
\* separator is used: every chunk is a run of consecutive pieces.
C24_ProseChunkSize ==
    Returned =>
        /\ \A k \in ChunksOfType({"text"}) :
              Len(final_chunks[k].page_content) <= cfg.chunk_size
        /\ (PlainProse /\ Len(Strip(text)) > 0 /\ Len(Strip(text)) <= cfg.chunk_size) =>
              /\ Len(final_chunks) = 1
              /\ final_chunks[1].page_content = Strip(text)
        /\ (/\ PlainProse
            /\ Len(Strip(text)) > cfg.chunk_size
            /\ \A p \in 1..Len(CoarsestPieces) : Len(CoarsestPieces[p]) < cfg.chunk_size) =>
              \A k \in 1..Len(final_chunks) :
                 \E i, j \in 1..Len(CoarsestPieces) :
                    /\ i <= j
                    /\ final_chunks[k].page_content
                          = Strip(Join(SubSeq(CoarsestPieces, i, j), <<>>))

\* a prose longer than chunk_size whose pieces at the coarsest separator all
\* fit: several chunks, one of them exactly chunk_size long
C24_Witness ==
    /\ Returned
    /\ PlainProse
    /\ Len(Strip(text)) > cfg.chunk_size
    /\ \A p \in 1..Len(CoarsestPieces) : Len(CoarsestPieces[p]) < cfg.chunk_size
    /\ Len(final_chunks) >= 2
    /\ \E k \in 1..Len(final_chunks) : Len(final_chunks[k].page_content) = cfg.chunk_size

-----------------------------------------------------------------------------
(* C25: sections partition the text                                        *)

\* a line made of 1 to 6 '#', then whitespace, then at least one character
IsAtxHeader(line) ==
    LET h == CharRun(line, 1, "#")
    IN /\ h >= 1
       /\ h <= 6
       /\ Len(line) >= h + 2
       /\ line[h + 1] \in Whitespace

\* the lines of the sections from section k on, one after the other
RECURSIVE SectionLines(_, _)
SectionLines(secs, k) ==
    IF k > Len(secs) THEN <<>> ELSE secs[k].content \o SectionLines(secs, k + 1)

\* C25: the lines of the sections, taken in order, are the lines of the parsed
\* text, each once; a section begins with a header line and holds no other
\* header line, except that the first section may be the preamble, which holds
\* none; a header section's level is the number of '#' of its first line and
\* its title is what follows them, without the whitespace in between. A line
\* of seven '#' is not a header.
C25_SectionsPartition ==
    (Parsed /\ cfg.preserve_markdown_structure) =>
        /\ SectionLines(sections, 1) = Split(text_with_placeholders, <<NL>>)
        /\ \A k \in 1..Len(sections) :
              LET sec  == sections[k]
                  head == sec.content[1]
              IN /\ Len(sec.content) >= 1
                 /\ \A j \in 2..Len(sec.content) : ~IsAtxHeader(sec.content[j])
                 /\ IF IsAtxHeader(head)
                    THEN /\ sec.level = CharRun(head, 1, "#")
                         /\ Len(NonWs(Drop(head, sec.level + 1))) > 0 =>
                               sec.title = LStrip(Drop(head, sec.level + 1))
                    ELSE /\ k = 1
                         /\ sec.level = 0
                         /\ sec.title = TitleIntroduction

\* the line '####### A' is content of the preamble and the line '# A' after it
\* begins the only other section
C25_Witness ==
    /\ Parsed
    /\ Len(sections) = 2
    /\ Len(sections[1].content) = 1
    /\ CharRun(sections[1].content[1], 1, "#") = 7
    /\ sections[1].level = 0
    /\ sections[2].level = 1
    /\ sections[2].title = <<"A">>

-----------------------------------------------------------------------------
(* C26: literal placeholder text                                           *)

\* the blocks that are emitted whole, as one chunk of type code
WholeBlocks ==
    {b \in 1..Len(code_blocks) :
        \/ Len(code_blocks[b].content) <= cfg.code_block_max_size
        \/ ~cfg.preserve_code_blocks}

\* number of occurrences of p in the first j returned chunks
RECURSIVE OccurrencesInChunks(_, _)
OccurrencesInChunks(p, j) ==
    IF j = 0 THEN 0
    ELSE Occurrences(final_chunks[j].page_content, p) + OccurrencesInChunks(p, j - 1)

\* C26: text of the form __CODE_BLOCK_k__ written in the input is not taken for
\* a code block: there are as many chunks of type code as blocks emitted whole,
\* and, when chunk_size leaves room for the token, the token is still in the
\* output as often as in the input.
C26_LiteralPlaceholderText ==
    Returned =>
        /\ Cardinality(ChunksOfType({"code"})) = Cardinality(WholeBlocks)
        /\ cfg.chunk_size >= Len(SegPlaceholder) =>
              OccurrencesInChunks(SegPlaceholder, Len(final_chunks))
                  >= Occurrences(text, SegPlaceholder)

-----------------------------------------------------------------------------
(* C27: preserve_code_blocks = false                                       *)

-----------------------------------------------------------------------------
(* C28: preserve_functions = false                                         *)

\* a document with one python block over the threshold, split because
\* preserve_code_blocks is on
LargePythonBlockNoFunctions ==
    /\ OneBlockDocument
    /\ ~cfg.preserve_functions
    /\ cfg.preserve_code_blocks
    /\ code_blocks[1].language = LangPython
    /\ Len(code_blocks[1].content) > cfg.code_block_max_size

\* C28: with preserve_functions=false nothing is raised and no chunk is of type
\* code_function or code_class; the functions and classes lists of every chunk
\* of type code are empty; a python block over code_block_max_size, whether it
\* would parse or not, comes out as code_partial chunks only, one for every
\* max(10, chunk_size // 40) lines, started or complete.
C28_NoPythonHandling ==
    ~cfg.preserve_functions =>
        /\ pc # "raised"
        /\ Returned =>
              /\ ChunksOfType({"code_function", "code_class"}) = {}
              /\ \A k \in ChunksOfType({"code"}) :
                    /\ final_chunks[k].metadata.functions = <<>>
                    /\ final_chunks[k].metadata.classes = <<>>
              /\ LargePythonBlockNoFunctions =>
                    LET n == Len(Split(code_blocks[1].content, <<NL>>))
                        g == Max(10, cfg.chunk_size \div 40)
                    IN /\ Len(CodeChunkSeq) = (n + g - 1) \div g
                       /\ \A j \in 1..Len(CodeChunkSeq) :
                             CodeChunkSeq[j].metadata.chunk_type = "code_partial"

\* a large python block that parses and defines a function is returned as
\* code_partial chunks
C28_Witness ==
    /\ Returned
    /\ LargePythonBlockNoFunctions
    /\ Parses(code_blocks[1].content)
    /\ Contains(code_blocks[1].content, KwDef)
    /\ Len(CodeChunkSeq) >= 1
    /\ \A j \in 1..Len(CodeChunkSeq) : CodeChunkSeq[j].metadata.chunk_type = "code_partial"

-----------------------------------------------------------------------------
(* C29: the caller's documents                                             *)

\* the chunks split_text returns for the first k documents of docs, one
\* document after the other
RECURSIVE ChunksOfDocuments(_, _)
ChunksOfDocuments(docs, k) ==
    IF k = 0 THEN <<>>
    ELSE ChunksOfDocuments(docs, k - 1)
         \o split_text(cfg, docs[k].page_content, docs[k].metadata)

\* the document that chunk k of all_chunks comes from
DocumentOf(k) ==
    CHOOSE i \in 1..Len(documents) :
        /\ Len(ChunksOfDocuments(documents, i - 1)) < k
        /\ k <= Len(ChunksOfDocuments(documents, i))

\* the chunks so far are those of the documents split so far, in the order of
\* the list, and each chunk holds the keys of its own document's metadata with
\* their values and, besides them, only keys the chunker writes
ChunksFollowDocuments ==
    /\ all_chunks = ChunksOfDocuments(documents, docs_done)
    /\ \A k \in 1..Len(all_chunks) :
          LET md == documents[DocumentOf(k)].metadata
          IN /\ \A key \in DOMAIN md : all_chunks[k].metadata[key] = md[key]
             /\ DOMAIN all_chunks[k].metadata \subseteq
                   DOMAIN md \cup UpdatedKeys \cup
                   {"language", "functions", "classes", "function_name",
                    "class_name", "start_line", "end_line"}

-----------------------------------------------------------------------------
(* C30: the session history                                                *)

\* the history kept for session s
HistoryOf(H, s) == IF s \in DOMAIN H THEN H[s] ELSE <<>>

\* the /ask requests for session s whose chain invocation returned, in call order
ReturnedAsks(s) ==
    SelectSeq(log, LAMBDA e : e.op = "ask" /\ e.session_id = s /\ e.chain = "returned")

\* the alternating Human/AI messages of a sequence of handled requests
MessagesOf(asks) ==
    [k \in 1..(2 * Len(asks)) |->
        IF k % 2 = 1
        THEN [type |-> "human", content |-> asks[(k + 1) \div 2].question]
        ELSE [type |-> "ai", content |-> asks[k \div 2].answer]]

\* the history after any sequence of requests
HistoryIsTheReturnedAsks ==
    \A s \in SessionIds :
       /\ get_session_history(SESSION_HISTORY, s) = MessagesOf(ReturnedAsks(s))
       /\ Len(HistoryOf(SESSION_HISTORY, s)) = Len(ReturnedAsks(s))
       /\ \A k \in 1..Len(log) :
             log[k].op = "ask" =>
                /\ log[k].status = 200 <=> log[k].chain = "returned"
                /\ log[k].status = 500 <=> log[k].chain = "raised"
                /\ log[k].status = 503 <=> log[k].chain = "not invoked"

\* a step changes the history of s only as a request for s whose chain
\* invocation returned, by one entry {human, ai} added at the end
HistoryStep ==
    \A s \in SessionIds :
       HistoryOf(SESSION_HISTORY', s) # HistoryOf(SESSION_HISTORY, s) =>
          LET e == log'[Len(log')]
          IN /\ Len(log') = Len(log) + 1
             /\ e.op = "ask"
             /\ e.session_id = s
             /\ e.chain = "returned"
             /\ e.status = 200
             /\ HistoryOf(SESSION_HISTORY', s)
                   = Append(HistoryOf(SESSION_HISTORY, s),
                            [human |-> e.question, ai |-> e.answer])

=============================================================================
